---- MODULE Spec2Model ----
(***************************************************************************)
(* Model of the chat proxy endpoint of contoso-air                         *)
(* (src/src/app/api/chat/route.ts): request validation, message            *)
(* sanitization, provider detection, the provider handlers and the SSE     *)
(* framing of their token streams.                                         *)
(*                                                                         *)
(* Texts on which the code works character by character (message           *)
(* contents, provider names, tokens, SSE events) are sequences of          *)
(* one-character strings.  The fixed messages of JSON error responses are  *)
(* kept as tuples of parts (a literal, then the interpolated cause).       *)
(***************************************************************************)
EXTENDS Integers, Sequences, FiniteSets, TLC

\* ------------------------------------------------------------------ bounds

\* Chunks (OpenAI/Azure) the upstream delivers in one stream at most.
MaxChunks == 3

\* A read of the Ollama body delivers at most this many characters, or all
\* that is left of the body.
MaxRead == 2

\* ------------------------------------------------------------------- texts

\* The value of an unset environment variable or an absent JSON field.
Undefined == [k |-> "undefined", s |-> <<>>]
\* A JSON value that is neither a string nor absent (a number, say).
NotAString == [k |-> "number", s |-> <<>>]
Str(s) == [k |-> "string", s |-> s]

\* The characters of a text.  A printable ASCII character (but the grave
\* accent, which a TLA+ string cannot hold), a tab, a line feed, a form feed
\* and a carriage return are written as themselves; every other character is
\* written U+ followed by the four to six hexadecimal digits (capitals) of
\* its code point.  A lone surrogate (half of a
\* character outside the Basic Multilingual Plane, as a cut inside it leaves
\* behind) is written the same way.

\* the characters U+0020 to U+007E, in order
ASCII ==
  <<" ", "!", "\"", "#", "$", "%", "&", "'", "(", ")", "*", "+", ",", "-", ".", "/", "0", "1",
    "2", "3", "4", "5", "6", "7", "8", "9", ":", ";", "<", "=", ">", "?", "@", "A", "B", "C",
    "D", "E", "F", "G", "H", "I", "J", "K", "L", "M", "N", "O", "P", "Q", "R", "S", "T", "U",
    "V", "W", "X", "Y", "Z", "[", "\\", "]", "^", "_", "U+0060", "a", "b", "c", "d", "e", "f", "g",
    "h", "i", "j", "k", "l", "m", "n", "o", "p", "q", "r", "s", "t", "u", "v", "w", "x", "y",
    "z", "{", "|", "}", "~">>

HEX == <<"0", "1", "2", "3", "4", "5", "6", "7", "8", "9", "A", "B", "C", "D", "E", "F">>

\* a hexadecimal digit in capitals
toUpperHex(d) ==
  CASE d = "a" -> "A" [] d = "b" -> "B" [] d = "c" -> "C" [] d = "d" -> "D" [] d = "e" -> "E"
    [] d = "f" -> "F" [] OTHER -> d

\* the value of a hexadecimal number written in capitals
RECURSIVE hexValue(_)
hexValue(digits) ==
  IF Len(digits) = 0 THEN 0
  ELSE 16 * hexValue(SubSeq(digits, 1, Len(digits) - 1))
         + (CHOOSE v \in 0..15 : HEX[v + 1] = SubSeq(digits, Len(digits), Len(digits)))

\* a number written in hexadecimal with at least width digits
RECURSIVE hexText(_, _)
hexText(n, width) ==
  IF n < 16 /\ width <= 1 THEN HEX[n + 1]
  ELSE hexText(n \div 16, width - 1) \o HEX[(n % 16) + 1]

\* String.prototype.codePointAt(0) of a character
codePoint(c) ==
  IF Len(c) > 1 THEN hexValue(SubSeq(c, 3, Len(c)))
  ELSE CASE c = "\t" -> 9 [] c = "\n" -> 10 [] c = "\f" -> 12 [] c = "\r" -> 13
         [] OTHER -> 31 + (CHOOSE i \in 1..Len(ASCII) : ASCII[i] = c)

\* String.fromCodePoint(n)
fromCodePoint(n) ==
  CASE n = 9 -> "\t" [] n = 10 -> "\n" [] n = 12 -> "\f" [] n = 13 -> "\r"
    [] n >= 32 /\ n <= 126 -> ASCII[n - 31]
    [] OTHER -> "U+" \o hexText(n, 4)

\* WhiteSpace and LineTerminator of ECMAScript: what String.prototype.trim strips
IsWhiteSpace(c) ==
  c \in {" ", "\t", "\n", "\r", "\f", "U+000B", "U+00A0", "U+1680", "U+2000", "U+2001",
         "U+2002", "U+2003", "U+2004", "U+2005", "U+2006", "U+2007", "U+2008", "U+2009",
         "U+200A", "U+2028", "U+2029", "U+202F", "U+205F", "U+3000", "U+FEFF"}

RECURSIVE trimStart(_)
trimStart(s) ==
  IF s # <<>> /\ IsWhiteSpace(Head(s)) THEN trimStart(Tail(s)) ELSE s

RECURSIVE trimEnd(_)
trimEnd(s) ==
  IF s # <<>> /\ IsWhiteSpace(s[Len(s)])
  THEN trimEnd(SubSeq(s, 1, Len(s) - 1))
  ELSE s

\* String.prototype.trim
trim(s) == trimEnd(trimStart(s))

UpperToLower ==
  [A |-> "a", B |-> "b", C |-> "c", D |-> "d", E |-> "e", F |-> "f", G |-> "g",
   H |-> "h", I |-> "i", J |-> "j", K |-> "k", L |-> "l", M |-> "m", N |-> "n",
   O |-> "o", P |-> "p", Q |-> "q", R |-> "r", S |-> "s", T |-> "t", U |-> "u",
   V |-> "v", W |-> "w", X |-> "x", Y |-> "y", Z |-> "z"]

\* F applied to the value of x (x is evaluated once)
With(x, F(_)) == CHOOSE r \in {F(v) : v \in {x}} : TRUE

\* The lower-case mappings of the Unicode Character Database, one entry
\* <<first, last, step, delta>> for the code points first, first + step, ...,
\* last, whose lower case lies delta further on.  U+0130 is not in the table:
\* its lower case is two characters.
LOWER_CASE ==
  <<
    <<65, 90, 1, 32>>, <<192, 214, 1, 32>>, <<216, 222, 1, 32>>, <<256, 302, 2, 1>>, <<306, 310, 2, 1>>, <<313, 327, 2, 1>>,
    <<330, 374, 2, 1>>, <<376, 376, 1, -121>>, <<377, 381, 2, 1>>, <<385, 385, 1, 210>>, <<386, 388, 2, 1>>, <<390, 390, 1, 206>>,
    <<391, 391, 1, 1>>, <<393, 394, 1, 205>>, <<395, 395, 1, 1>>, <<398, 398, 1, 79>>, <<399, 399, 1, 202>>, <<400, 400, 1, 203>>,
    <<401, 401, 1, 1>>, <<403, 403, 1, 205>>, <<404, 404, 1, 207>>, <<406, 406, 1, 211>>, <<407, 407, 1, 209>>, <<408, 408, 1, 1>>,
    <<412, 412, 1, 211>>, <<413, 413, 1, 213>>, <<415, 415, 1, 214>>, <<416, 420, 2, 1>>, <<422, 422, 1, 218>>, <<423, 423, 1, 1>>,
    <<425, 425, 1, 218>>, <<428, 428, 1, 1>>, <<430, 430, 1, 218>>, <<431, 431, 1, 1>>, <<433, 434, 1, 217>>, <<435, 437, 2, 1>>,
    <<439, 439, 1, 219>>, <<440, 440, 1, 1>>, <<444, 444, 1, 1>>, <<452, 452, 1, 2>>, <<453, 453, 1, 1>>, <<455, 455, 1, 2>>,
    <<456, 456, 1, 1>>, <<458, 458, 1, 2>>, <<459, 475, 2, 1>>, <<478, 494, 2, 1>>, <<497, 497, 1, 2>>, <<498, 500, 2, 1>>,
    <<502, 502, 1, -97>>, <<503, 503, 1, -56>>, <<504, 542, 2, 1>>, <<544, 544, 1, -130>>, <<546, 562, 2, 1>>, <<570, 570, 1, 10795>>,
    <<571, 571, 1, 1>>, <<573, 573, 1, -163>>, <<574, 574, 1, 10792>>, <<577, 577, 1, 1>>, <<579, 579, 1, -195>>, <<580, 580, 1, 69>>,
    <<581, 581, 1, 71>>, <<582, 590, 2, 1>>, <<880, 882, 2, 1>>, <<886, 886, 1, 1>>, <<895, 895, 1, 116>>, <<902, 902, 1, 38>>,
    <<904, 906, 1, 37>>, <<908, 908, 1, 64>>, <<910, 911, 1, 63>>, <<913, 929, 1, 32>>, <<931, 939, 1, 32>>, <<975, 975, 1, 8>>,
    <<984, 1006, 2, 1>>, <<1012, 1012, 1, -60>>, <<1015, 1015, 1, 1>>, <<1017, 1017, 1, -7>>, <<1018, 1018, 1, 1>>, <<1021, 1023, 1, -130>>,
    <<1024, 1039, 1, 80>>, <<1040, 1071, 1, 32>>, <<1120, 1152, 2, 1>>, <<1162, 1214, 2, 1>>, <<1216, 1216, 1, 15>>, <<1217, 1229, 2, 1>>,
    <<1232, 1326, 2, 1>>, <<1329, 1366, 1, 48>>, <<4256, 4293, 1, 7264>>, <<4295, 4295, 1, 7264>>, <<4301, 4301, 1, 7264>>, <<5024, 5103, 1, 38864>>,
    <<5104, 5109, 1, 8>>, <<7305, 7305, 1, 1>>, <<7312, 7354, 1, -3008>>, <<7357, 7359, 1, -3008>>, <<7680, 7828, 2, 1>>, <<7838, 7838, 1, -7615>>,
    <<7840, 7934, 2, 1>>, <<7944, 7951, 1, -8>>, <<7960, 7965, 1, -8>>, <<7976, 7983, 1, -8>>, <<7992, 7999, 1, -8>>, <<8008, 8013, 1, -8>>,
    <<8025, 8031, 2, -8>>, <<8040, 8047, 1, -8>>, <<8072, 8079, 1, -8>>, <<8088, 8095, 1, -8>>, <<8104, 8111, 1, -8>>, <<8120, 8121, 1, -8>>,
    <<8122, 8123, 1, -74>>, <<8124, 8124, 1, -9>>, <<8136, 8139, 1, -86>>, <<8140, 8140, 1, -9>>, <<8152, 8153, 1, -8>>, <<8154, 8155, 1, -100>>,
    <<8168, 8169, 1, -8>>, <<8170, 8171, 1, -112>>, <<8172, 8172, 1, -7>>, <<8184, 8185, 1, -128>>, <<8186, 8187, 1, -126>>, <<8188, 8188, 1, -9>>,
    <<8486, 8486, 1, -7517>>, <<8490, 8490, 1, -8383>>, <<8491, 8491, 1, -8262>>, <<8498, 8498, 1, 28>>, <<8544, 8559, 1, 16>>, <<8579, 8579, 1, 1>>,
    <<9398, 9423, 1, 26>>, <<11264, 11311, 1, 48>>, <<11360, 11360, 1, 1>>, <<11362, 11362, 1, -10743>>, <<11363, 11363, 1, -3814>>, <<11364, 11364, 1, -10727>>,
    <<11367, 11371, 2, 1>>, <<11373, 11373, 1, -10780>>, <<11374, 11374, 1, -10749>>, <<11375, 11375, 1, -10783>>, <<11376, 11376, 1, -10782>>, <<11378, 11378, 1, 1>>,
    <<11381, 11381, 1, 1>>, <<11390, 11391, 1, -10815>>, <<11392, 11490, 2, 1>>, <<11499, 11501, 2, 1>>, <<11506, 11506, 1, 1>>, <<42560, 42604, 2, 1>>,
    <<42624, 42650, 2, 1>>, <<42786, 42798, 2, 1>>, <<42802, 42862, 2, 1>>, <<42873, 42875, 2, 1>>, <<42877, 42877, 1, -35332>>, <<42878, 42886, 2, 1>>,
    <<42891, 42891, 1, 1>>, <<42893, 42893, 1, -42280>>, <<42896, 42898, 2, 1>>, <<42902, 42920, 2, 1>>, <<42922, 42922, 1, -42308>>, <<42923, 42923, 1, -42319>>,
    <<42924, 42924, 1, -42315>>, <<42925, 42925, 1, -42305>>, <<42926, 42926, 1, -42308>>, <<42928, 42928, 1, -42258>>, <<42929, 42929, 1, -42282>>, <<42930, 42930, 1, -42261>>,
    <<42931, 42931, 1, 928>>, <<42932, 42946, 2, 1>>, <<42948, 42948, 1, -48>>, <<42949, 42949, 1, -42307>>, <<42950, 42950, 1, -35384>>, <<42951, 42953, 2, 1>>,
    <<42955, 42955, 1, -42343>>, <<42956, 42970, 2, 1>>, <<42972, 42972, 1, -42561>>, <<42997, 42997, 1, 1>>, <<65313, 65338, 1, 32>>, <<66560, 66599, 1, 40>>,
    <<66736, 66771, 1, 40>>, <<66928, 66938, 1, 39>>, <<66940, 66954, 1, 39>>, <<66956, 66962, 1, 39>>, <<66964, 66965, 1, 39>>, <<68736, 68786, 1, 64>>,
    <<68944, 68965, 1, 32>>, <<71840, 71871, 1, 32>>, <<93760, 93791, 1, 32>>, <<93856, 93880, 1, 27>>, <<125184, 125217, 1, 34>>
  >>

\* the lower case of a character by its code point, where its place in the
\* text does not matter; U+0130 (capital I with dot) becomes two characters,
\* i and the combining dot U+0307
lowerOfCodePoint(n) ==
  IF n = 304 THEN <<"i", "U+0307">>
  ELSE With({r \in 1..Len(LOWER_CASE) :
               /\ LOWER_CASE[r][1] <= n /\ n <= LOWER_CASE[r][2]
               /\ (n - LOWER_CASE[r][1]) % LOWER_CASE[r][3] = 0}, LAMBDA hit :
         IF hit = {} THEN <<fromCodePoint(n)>>
         ELSE <<fromCodePoint(n + LOWER_CASE[CHOOSE r \in hit : TRUE][4])>>)

\* The code points with the property Cased (letters that are, or have, an
\* upper or lower case), as ranges <<first, last>>
CASED ==
  <<
    <<65, 90>>, <<97, 122>>, <<170, 170>>, <<181, 181>>, <<186, 186>>, <<192, 214>>, <<216, 246>>, <<248, 442>>, <<444, 447>>, <<452, 659>>,
    <<662, 696>>, <<704, 705>>, <<736, 740>>, <<837, 837>>, <<880, 883>>, <<886, 887>>, <<890, 893>>, <<895, 895>>, <<902, 902>>, <<904, 906>>,
    <<908, 908>>, <<910, 929>>, <<931, 1013>>, <<1015, 1153>>, <<1162, 1327>>, <<1329, 1366>>, <<1376, 1416>>, <<4256, 4293>>, <<4295, 4295>>, <<4301, 4301>>,
    <<4304, 4346>>, <<4348, 4351>>, <<5024, 5109>>, <<5112, 5117>>, <<7296, 7306>>, <<7312, 7354>>, <<7357, 7359>>, <<7424, 7615>>, <<7680, 7957>>, <<7960, 7965>>,
    <<7968, 8005>>, <<8008, 8013>>, <<8016, 8023>>, <<8025, 8025>>, <<8027, 8027>>, <<8029, 8029>>, <<8031, 8061>>, <<8064, 8116>>, <<8118, 8124>>, <<8126, 8126>>,
    <<8130, 8132>>, <<8134, 8140>>, <<8144, 8147>>, <<8150, 8155>>, <<8160, 8172>>, <<8178, 8180>>, <<8182, 8188>>, <<8305, 8305>>, <<8319, 8319>>, <<8336, 8348>>,
    <<8450, 8450>>, <<8455, 8455>>, <<8458, 8467>>, <<8469, 8469>>, <<8473, 8477>>, <<8484, 8484>>, <<8486, 8486>>, <<8488, 8488>>, <<8490, 8493>>, <<8495, 8500>>,
    <<8505, 8505>>, <<8508, 8511>>, <<8517, 8521>>, <<8526, 8526>>, <<8544, 8575>>, <<8579, 8580>>, <<9398, 9449>>, <<11264, 11492>>, <<11499, 11502>>, <<11506, 11507>>,
    <<11520, 11557>>, <<11559, 11559>>, <<11565, 11565>>, <<42560, 42605>>, <<42624, 42653>>, <<42786, 42887>>, <<42891, 42894>>, <<42896, 42972>>, <<42993, 42998>>, <<43000, 43002>>,
    <<43824, 43866>>, <<43868, 43881>>, <<43888, 43967>>, <<64256, 64262>>, <<64275, 64279>>, <<65313, 65338>>, <<65345, 65370>>, <<66560, 66639>>, <<66736, 66771>>, <<66776, 66811>>,
    <<66928, 66938>>, <<66940, 66954>>, <<66956, 66962>>, <<66964, 66965>>, <<66967, 66977>>, <<66979, 66993>>, <<66995, 67001>>, <<67003, 67004>>, <<67456, 67456>>, <<67459, 67461>>,
    <<67463, 67504>>, <<67506, 67514>>, <<68736, 68786>>, <<68800, 68850>>, <<68944, 68965>>, <<68976, 68997>>, <<71840, 71903>>, <<93760, 93823>>, <<93856, 93880>>, <<93883, 93907>>,
    <<119808, 119892>>, <<119894, 119964>>, <<119966, 119967>>, <<119970, 119970>>, <<119973, 119974>>, <<119977, 119980>>, <<119982, 119993>>, <<119995, 119995>>, <<119997, 120003>>, <<120005, 120069>>,
    <<120071, 120074>>, <<120077, 120084>>, <<120086, 120092>>, <<120094, 120121>>, <<120123, 120126>>, <<120128, 120132>>, <<120134, 120134>>, <<120138, 120144>>, <<120146, 120485>>, <<120488, 120512>>,
    <<120514, 120538>>, <<120540, 120570>>, <<120572, 120596>>, <<120598, 120628>>, <<120630, 120654>>, <<120656, 120686>>, <<120688, 120712>>, <<120714, 120744>>, <<120746, 120770>>, <<120772, 120779>>,
    <<122624, 122633>>, <<122635, 122654>>, <<122661, 122666>>, <<122928, 122989>>, <<125184, 125251>>, <<127280, 127305>>, <<127312, 127337>>, <<127344, 127369>>
  >>

\* The code points with the property Case_Ignorable (marks, modifiers,
\* apostrophes and the like, which a word may hold between its letters), as
\* ranges <<first, last>>
CASE_IGNORABLE ==
  <<
    <<39, 39>>, <<46, 46>>, <<58, 58>>, <<94, 94>>, <<96, 96>>, <<168, 168>>, <<173, 173>>, <<175, 175>>, <<180, 180>>, <<183, 184>>,
    <<688, 879>>, <<884, 885>>, <<890, 890>>, <<900, 901>>, <<903, 903>>, <<1155, 1161>>, <<1369, 1369>>, <<1375, 1375>>, <<1425, 1469>>, <<1471, 1471>>,
    <<1473, 1474>>, <<1476, 1477>>, <<1479, 1479>>, <<1524, 1524>>, <<1536, 1541>>, <<1552, 1562>>, <<1564, 1564>>, <<1600, 1600>>, <<1611, 1631>>, <<1648, 1648>>,
    <<1750, 1757>>, <<1759, 1768>>, <<1770, 1773>>, <<1807, 1807>>, <<1809, 1809>>, <<1840, 1866>>, <<1958, 1968>>, <<2027, 2037>>, <<2042, 2042>>, <<2045, 2045>>,
    <<2070, 2093>>, <<2137, 2139>>, <<2184, 2184>>, <<2192, 2193>>, <<2199, 2207>>, <<2249, 2306>>, <<2362, 2362>>, <<2364, 2364>>, <<2369, 2376>>, <<2381, 2381>>,
    <<2385, 2391>>, <<2402, 2403>>, <<2417, 2417>>, <<2433, 2433>>, <<2492, 2492>>, <<2497, 2500>>, <<2509, 2509>>, <<2530, 2531>>, <<2558, 2558>>, <<2561, 2562>>,
    <<2620, 2620>>, <<2625, 2626>>, <<2631, 2632>>, <<2635, 2637>>, <<2641, 2641>>, <<2672, 2673>>, <<2677, 2677>>, <<2689, 2690>>, <<2748, 2748>>, <<2753, 2757>>,
    <<2759, 2760>>, <<2765, 2765>>, <<2786, 2787>>, <<2810, 2815>>, <<2817, 2817>>, <<2876, 2876>>, <<2879, 2879>>, <<2881, 2884>>, <<2893, 2893>>, <<2901, 2902>>,
    <<2914, 2915>>, <<2946, 2946>>, <<3008, 3008>>, <<3021, 3021>>, <<3072, 3072>>, <<3076, 3076>>, <<3132, 3132>>, <<3134, 3136>>, <<3142, 3144>>, <<3146, 3149>>,
    <<3157, 3158>>, <<3170, 3171>>, <<3201, 3201>>, <<3260, 3260>>, <<3263, 3263>>, <<3270, 3270>>, <<3276, 3277>>, <<3298, 3299>>, <<3328, 3329>>, <<3387, 3388>>,
    <<3393, 3396>>, <<3405, 3405>>, <<3426, 3427>>, <<3457, 3457>>, <<3530, 3530>>, <<3538, 3540>>, <<3542, 3542>>, <<3633, 3633>>, <<3636, 3642>>, <<3654, 3662>>,
    <<3761, 3761>>, <<3764, 3772>>, <<3782, 3782>>, <<3784, 3790>>, <<3864, 3865>>, <<3893, 3893>>, <<3895, 3895>>, <<3897, 3897>>, <<3953, 3966>>, <<3968, 3972>>,
    <<3974, 3975>>, <<3981, 3991>>, <<3993, 4028>>, <<4038, 4038>>, <<4141, 4144>>, <<4146, 4151>>, <<4153, 4154>>, <<4157, 4158>>, <<4184, 4185>>, <<4190, 4192>>,
    <<4209, 4212>>, <<4226, 4226>>, <<4229, 4230>>, <<4237, 4237>>, <<4253, 4253>>, <<4348, 4348>>, <<4957, 4959>>, <<5906, 5908>>, <<5938, 5939>>, <<5970, 5971>>,
    <<6002, 6003>>, <<6068, 6069>>, <<6071, 6077>>, <<6086, 6086>>, <<6089, 6099>>, <<6103, 6103>>, <<6109, 6109>>, <<6155, 6159>>, <<6211, 6211>>, <<6277, 6278>>,
    <<6313, 6313>>, <<6432, 6434>>, <<6439, 6440>>, <<6450, 6450>>, <<6457, 6459>>, <<6679, 6680>>, <<6683, 6683>>, <<6742, 6742>>, <<6744, 6750>>, <<6752, 6752>>,
    <<6754, 6754>>, <<6757, 6764>>, <<6771, 6780>>, <<6783, 6783>>, <<6823, 6823>>, <<6832, 6877>>, <<6880, 6891>>, <<6912, 6915>>, <<6964, 6964>>, <<6966, 6970>>,
    <<6972, 6972>>, <<6978, 6978>>, <<7019, 7027>>, <<7040, 7041>>, <<7074, 7077>>, <<7080, 7081>>, <<7083, 7085>>, <<7142, 7142>>, <<7144, 7145>>, <<7149, 7149>>,
    <<7151, 7153>>, <<7212, 7219>>, <<7222, 7223>>, <<7288, 7293>>, <<7376, 7378>>, <<7380, 7392>>, <<7394, 7400>>, <<7405, 7405>>, <<7412, 7412>>, <<7416, 7417>>,
    <<7468, 7530>>, <<7544, 7544>>, <<7579, 7679>>, <<8125, 8125>>, <<8127, 8129>>, <<8141, 8143>>, <<8157, 8159>>, <<8173, 8175>>, <<8189, 8190>>, <<8203, 8207>>,
    <<8216, 8217>>, <<8228, 8228>>, <<8231, 8231>>, <<8234, 8238>>, <<8288, 8292>>, <<8294, 8303>>, <<8305, 8305>>, <<8319, 8319>>, <<8336, 8348>>, <<8400, 8432>>,
    <<11388, 11389>>, <<11503, 11505>>, <<11631, 11631>>, <<11647, 11647>>, <<11744, 11775>>, <<11823, 11823>>, <<12293, 12293>>, <<12330, 12333>>, <<12337, 12341>>, <<12347, 12347>>,
    <<12441, 12446>>, <<12540, 12542>>, <<40981, 40981>>, <<42232, 42237>>, <<42508, 42508>>, <<42607, 42610>>, <<42612, 42621>>, <<42623, 42623>>, <<42652, 42655>>, <<42736, 42737>>,
    <<42752, 42785>>, <<42864, 42864>>, <<42888, 42890>>, <<42993, 42996>>, <<43000, 43001>>, <<43010, 43010>>, <<43014, 43014>>, <<43019, 43019>>, <<43045, 43046>>, <<43052, 43052>>,
    <<43204, 43205>>, <<43232, 43249>>, <<43263, 43263>>, <<43302, 43309>>, <<43335, 43345>>, <<43392, 43394>>, <<43443, 43443>>, <<43446, 43449>>, <<43452, 43453>>, <<43471, 43471>>,
    <<43493, 43494>>, <<43561, 43566>>, <<43569, 43570>>, <<43573, 43574>>, <<43587, 43587>>, <<43596, 43596>>, <<43632, 43632>>, <<43644, 43644>>, <<43696, 43696>>, <<43698, 43700>>,
    <<43703, 43704>>, <<43710, 43711>>, <<43713, 43713>>, <<43741, 43741>>, <<43756, 43757>>, <<43763, 43764>>, <<43766, 43766>>, <<43867, 43871>>, <<43881, 43883>>, <<44005, 44005>>,
    <<44008, 44008>>, <<44013, 44013>>, <<64286, 64286>>, <<64434, 64450>>, <<65024, 65039>>, <<65043, 65043>>, <<65056, 65071>>, <<65106, 65106>>, <<65109, 65109>>, <<65279, 65279>>,
    <<65287, 65287>>, <<65294, 65294>>, <<65306, 65306>>, <<65342, 65342>>, <<65344, 65344>>, <<65392, 65392>>, <<65438, 65439>>, <<65507, 65507>>, <<65529, 65531>>, <<66045, 66045>>,
    <<66272, 66272>>, <<66422, 66426>>, <<67456, 67461>>, <<67463, 67504>>, <<67506, 67514>>, <<68097, 68099>>, <<68101, 68102>>, <<68108, 68111>>, <<68152, 68154>>, <<68159, 68159>>,
    <<68325, 68326>>, <<68900, 68903>>, <<68942, 68942>>, <<68969, 68973>>, <<68975, 68975>>, <<69291, 69292>>, <<69317, 69317>>, <<69370, 69375>>, <<69446, 69456>>, <<69506, 69509>>,
    <<69633, 69633>>, <<69688, 69702>>, <<69744, 69744>>, <<69747, 69748>>, <<69759, 69761>>, <<69811, 69814>>, <<69817, 69818>>, <<69821, 69821>>, <<69826, 69826>>, <<69837, 69837>>,
    <<69888, 69890>>, <<69927, 69931>>, <<69933, 69940>>, <<70003, 70003>>, <<70016, 70017>>, <<70070, 70078>>, <<70089, 70092>>, <<70095, 70095>>, <<70191, 70193>>, <<70196, 70196>>,
    <<70198, 70199>>, <<70206, 70206>>, <<70209, 70209>>, <<70367, 70367>>, <<70371, 70378>>, <<70400, 70401>>, <<70459, 70460>>, <<70464, 70464>>, <<70502, 70508>>, <<70512, 70516>>,
    <<70587, 70592>>, <<70606, 70606>>, <<70608, 70608>>, <<70610, 70610>>, <<70625, 70626>>, <<70712, 70719>>, <<70722, 70724>>, <<70726, 70726>>, <<70750, 70750>>, <<70835, 70840>>,
    <<70842, 70842>>, <<70847, 70848>>, <<70850, 70851>>, <<71090, 71093>>, <<71100, 71101>>, <<71103, 71104>>, <<71132, 71133>>, <<71219, 71226>>, <<71229, 71229>>, <<71231, 71232>>,
    <<71339, 71339>>, <<71341, 71341>>, <<71344, 71349>>, <<71351, 71351>>, <<71453, 71453>>, <<71455, 71455>>, <<71458, 71461>>, <<71463, 71467>>, <<71727, 71735>>, <<71737, 71738>>,
    <<71995, 71996>>, <<71998, 71998>>, <<72003, 72003>>, <<72148, 72151>>, <<72154, 72155>>, <<72160, 72160>>, <<72193, 72202>>, <<72243, 72248>>, <<72251, 72254>>, <<72263, 72263>>,
    <<72273, 72278>>, <<72281, 72283>>, <<72330, 72342>>, <<72344, 72345>>, <<72544, 72544>>, <<72546, 72548>>, <<72550, 72550>>, <<72752, 72758>>, <<72760, 72765>>, <<72767, 72767>>,
    <<72850, 72871>>, <<72874, 72880>>, <<72882, 72883>>, <<72885, 72886>>, <<73009, 73014>>, <<73018, 73018>>, <<73020, 73021>>, <<73023, 73029>>, <<73031, 73031>>, <<73104, 73105>>,
    <<73109, 73109>>, <<73111, 73111>>, <<73177, 73177>>, <<73459, 73460>>, <<73472, 73473>>, <<73526, 73530>>, <<73536, 73536>>, <<73538, 73538>>, <<73562, 73562>>, <<78896, 78912>>,
    <<78919, 78933>>, <<90398, 90409>>, <<90413, 90415>>, <<92912, 92916>>, <<92976, 92982>>, <<92992, 92995>>, <<93504, 93506>>, <<93547, 93548>>, <<94031, 94031>>, <<94095, 94111>>,
    <<94176, 94177>>, <<94179, 94180>>, <<94194, 94195>>, <<110576, 110579>>, <<110581, 110587>>, <<110589, 110590>>, <<113821, 113822>>, <<113824, 113827>>, <<118528, 118573>>, <<118576, 118598>>,
    <<119143, 119145>>, <<119155, 119170>>, <<119173, 119179>>, <<119210, 119213>>, <<119362, 119364>>, <<121344, 121398>>, <<121403, 121452>>, <<121461, 121461>>, <<121476, 121476>>, <<121499, 121503>>,
    <<121505, 121519>>, <<122880, 122886>>, <<122888, 122904>>, <<122907, 122913>>, <<122915, 122916>>, <<122918, 122922>>, <<122928, 122989>>, <<123023, 123023>>, <<123184, 123197>>, <<123566, 123566>>,
    <<123628, 123631>>, <<124139, 124143>>, <<124398, 124399>>, <<124643, 124643>>, <<124646, 124646>>, <<124654, 124655>>, <<124661, 124661>>, <<124671, 124671>>, <<125136, 125142>>, <<125252, 125259>>,
    <<127995, 127999>>, <<917505, 917505>>, <<917536, 917631>>, <<917760, 917999>>
  >>

\* the code point n lies in one of the ranges
inRanges(n, ranges) == \E r \in 1..Len(ranges) : ranges[r][1] <= n /\ n <= ranges[r][2]

isCased(c) == inRanges(codePoint(c), CASED)
isCaseIgnorable(c) == inRanges(codePoint(c), CASE_IGNORABLE)

\* the capital sigma at position i of s ends a word (Final_Sigma): a cased
\* letter stands before it and none after it, case-ignorable characters in
\* between passed over
isFinalSigma(s, i) ==
  With([before |-> {j \in 1..(i - 1) : ~isCaseIgnorable(s[j])},
        after |-> {j \in (i + 1)..Len(s) : ~isCaseIgnorable(s[j])}], LAMBDA x :
    /\ x.before # {}
    /\ isCased(s[CHOOSE j \in x.before : \A k \in x.before : k <= j])
    /\ x.after = {} \/ ~isCased(s[CHOOSE j \in x.after : \A k \in x.after : j <= k]))

\* the lower case of the character at position i of s
lowerAt(s, i) ==
  IF s[i] \in DOMAIN UpperToLower THEN <<UpperToLower[s[i]]>>
  ELSE IF Len(s[i]) = 1 THEN <<s[i]>>
  ELSE IF s[i] = "U+03A3" THEN (IF isFinalSigma(s, i) THEN <<"U+03C2">> ELSE <<"U+03C3">>)
  ELSE lowerOfCodePoint(codePoint(s[i]))

RECURSIVE lowerFrom(_, _)
lowerFrom(s, i) == IF i > Len(s) THEN <<>> ELSE lowerAt(s, i) \o lowerFrom(s, i + 1)

\* String.prototype.toLowerCase
toLowerCase(s) == lowerFrom(s, 1)

\* the UTF-16 code units of a character: two (a surrogate pair) for a
\* character outside the Basic Multilingual Plane
utf16Length(c) == IF Len(c) > 6 THEN 2 ELSE 1

\* the two code units of a character outside the Basic Multilingual Plane
highSurrogate(c) == fromCodePoint(55296 + ((codePoint(c) - 65536) \div 1024))
lowSurrogate(c) == fromCodePoint(56320 + ((codePoint(c) - 65536) % 1024))

\* a surrogate standing alone: U+D800 to U+DFFF, the first half U+D800 to
\* U+DBFF, the second half U+DC00 to U+DFFF
isSurrogate(c) ==
  Len(c) = 6 /\ SubSeq(c, 1, 3) = "U+D" /\ SubSeq(c, 4, 4) \in {"8", "9", "A", "B", "C", "D", "E", "F"}
isHighSurrogate(c) == isSurrogate(c) /\ SubSeq(c, 4, 4) \in {"8", "9", "A", "B"}
isLowSurrogate(c) == isSurrogate(c) /\ SubSeq(c, 4, 4) \in {"C", "D", "E", "F"}

\* the UTF-16 code units of a text, which the string methods count in: a
\* character outside the Basic Multilingual Plane is its two surrogates
toCodeUnits(s) ==
  With({i \in 1..Len(s) : utf16Length(s[i]) = 2}, LAMBDA wide :
    IF wide = {} THEN s
    ELSE [k \in 1..(Len(s) + Cardinality(wide)) |->
           With(CHOOSE i \in 1..Len(s) :
                  /\ i + Cardinality({w \in wide : w < i}) <= k
                  /\ k <= i + Cardinality({w \in wide : w <= i}),
                LAMBDA i :
                  IF i \notin wide THEN s[i]
                  ELSE IF k = i + Cardinality({w \in wide : w < i}) THEN highSurrogate(s[i])
                  ELSE lowSurrogate(s[i]))])

\* the text of a sequence of code units: a first half followed by a second
\* half is one character, every other surrogate stands alone
fromCodeUnits(u) ==
  With({k \in 1..(Len(u) - 1) : isHighSurrogate(u[k]) /\ isLowSurrogate(u[k + 1])}, LAMBDA pairs :
    IF pairs = {} THEN u
    ELSE [j \in 1..(Len(u) - Cardinality(pairs)) |->
           With(CHOOSE k \in 1..Len(u) :
                  (k - 1) \notin pairs /\ k - Cardinality({x \in pairs : x < k}) = j,
                LAMBDA k :
                  IF k \in pairs
                  THEN fromCodePoint(65536 + (codePoint(u[k]) - 55296) * 1024
                                       + (codePoint(u[k + 1]) - 56320))
                  ELSE u[k])])

\* String.prototype.length
length(s) == Len(s) + Cardinality({i \in 1..Len(s) : utf16Length(s[i]) = 2})

\* String.prototype.slice(start, end) for 0 <= start: the code units of s
\* from start up to (not including) end.  A cut inside a surrogate pair
\* leaves one half of it.
slice(s, start, end) ==
  With(toCodeUnits(s), LAMBDA u :
    fromCodeUnits(SubSeq(u, start + 1, IF Len(u) < end THEN Len(u) ELSE end)))

\* the character a decoder puts for bytes that are no character, and an
\* encoder for a surrogate standing alone
REPLACEMENT == "U+FFFD"

\* TextEncoder.prototype.encode, as the text its bytes are read as
encode(text) == [i \in 1..Len(text) |-> IF isSurrogate(text[i]) THEN REPLACEMENT ELSE text[i]]

\* String.prototype.startsWith: a comparison of code units
startsWith(s, p) ==
  With([s |-> toCodeUnits(s), p |-> toCodeUnits(p)], LAMBDA u :
    Len(u.p) <= Len(u.s) /\ SubSeq(u.s, 1, Len(u.p)) = u.p)

\* Array.prototype.filter, for a predicate given as the set of kept elements' indexes
RECURSIVE SelectIdx(_, _, _)
SelectIdx(list, keep, i) ==
  IF i > Len(list) THEN <<>>
  ELSE (IF i \in keep THEN <<list[i]>> ELSE <<>>) \o SelectIdx(list, keep, i + 1)

\* n copies of x
Rep(n, x) == [i \in 1..n |-> x]

\* JavaScript truthiness of a string-or-undefined value: Boolean(v)
Truthy(v) == v.k = "string" /\ v.s # <<>>

\* v?.trim() of a string-or-undefined value
OptTrim(v) == IF v.k = "string" THEN Str(trim(v.s)) ELSE Undefined

\* a || b
Or(a, b) == IF Truthy(a) THEN a ELSE b

\* ------------------------------------------------- input-independent texts

DATA_PREFIX == <<"d", "a", "t", "a", ":", " ">>
EVENT_END == <<"\n", "\n">>
DONE == <<"[", "D", "O", "N", "E", "]">>
ERROR_PREFIX == <<"[", "E", "R", "R", "O", "R", "]", " ">>

AZURE == <<"a", "z", "u", "r", "e">>
OPENAI == <<"o", "p", "e", "n", "a", "i">>
OLLAMA == <<"o", "l", "l", "a", "m", "a">>
MOCK == <<"m", "o", "c", "k">>

\* type Provider
Provider == {AZURE, OPENAI, OLLAMA, MOCK}

\* ------------------------------------------------------------ sanitization

\* m.content?.trim() throws a TypeError when content is present and no string
contentTrimThrows(m) == m.content.k = "number"

\* sanitizeMessages without the filter: every message is kept, trimmed
sanitizeMessagesNoFilter(list) ==
  [i \in 1..Len(list) |-> [role |-> list[i].role, content |-> Str(trim(list[i].content.s))]]

\* sanitizeMessages with the filter testing the content itself, not its trimmed text
sanitizeMessagesFilterUntrimmed(list) ==
  LET kept == {i \in 1..Len(list) : Truthy(list[i].content)}
      surviving == SelectIdx(list, kept, 1)
  IN [i \in 1..Len(surviving) |->
        [role |-> surviving[i].role, content |-> Str(trim(surviving[i].content.s))]]

\* sanitizeMessages: the messages whose trimmed content is non-empty, trimmed
sanitizeMessages(list) ==
  LET kept == {i \in 1..Len(list) : Truthy(OptTrim(list[i].content))}
      surviving == SelectIdx(list, kept, 1)
  IN [i \in 1..Len(surviving) |->
        [role |-> surviving[i].role, content |-> Str(trim(surviving[i].content.s))]]

\* the filter callback throws on the first message whose content is no string
sanitizeThrows(list) == \E i \in 1..Len(list) : contentTrimThrows(list[i])

\* ------------------------------------------------------ provider detection

\* hasAzureConfig accepting the API key only, no managed-identity client id
hasAzureConfigKeyOnly(e) ==
  /\ Truthy(e.AZURE_OPENAI_ENDPOINT)
  /\ Truthy(e.AZURE_OPENAI_DEPLOYMENT)
  /\ Truthy(e.AZURE_OPENAI_API_VERSION)
  /\ Truthy(e.AZURE_OPENAI_API_KEY)

hasAzureConfig(e) ==
  /\ Truthy(e.AZURE_OPENAI_ENDPOINT)
  /\ Truthy(e.AZURE_OPENAI_DEPLOYMENT)
  /\ Truthy(e.AZURE_OPENAI_API_VERSION)
  /\ Truthy(Or(e.AZURE_OPENAI_API_KEY,
               Or(e.AZURE_OPENAI_CLIENTID, e.AZURE_MANAGED_IDENTITY_CLIENT_ID)))

hasOpenAIConfig(e) == Truthy(e.OPENAI_API_KEY)

\* what stands for the result of a call that threw a TypeError instead of returning
TypeErrorThrown == <<"TypeError">>

\* detectProvider without toLowerCase: the comparison is case-sensitive
detectProviderCaseSensitive(explicit, e) ==
  LET req == IF explicit.k = "string" THEN Str(trim(explicit.s)) ELSE Undefined
  IN IF explicit.k = "number" THEN TypeErrorThrown
     ELSE IF Truthy(req) /\ req.s \in Provider THEN req.s
     ELSE IF hasAzureConfig(e) THEN AZURE
     ELSE IF hasOpenAIConfig(e) THEN OPENAI
     ELSE MOCK

\* detectProvider(explicit): the provider, or TypeErrorThrown when explicit is
\* neither a string nor absent (explicit?.toLowerCase is no function then)
detectProvider(explicit, e) ==
  LET req == IF explicit.k = "string" THEN Str(trim(toLowerCase(explicit.s))) ELSE Undefined
  IN IF explicit.k = "number" THEN TypeErrorThrown
     ELSE IF Truthy(req) /\ req.s \in Provider THEN req.s
     ELSE IF hasAzureConfig(e) THEN AZURE
     ELSE IF hasOpenAIConfig(e) THEN OPENAI
     ELSE MOCK

\* ------------------------------------------------------------- SSE framing

\* The output channel of one stream: the ReadableStream's controller.  out is
\* the chunks enqueued, in order (each the text its bytes are read as); calls is every
\* token emit was called with.  state is "readable" while the controller
\* takes chunks and "closed" once controller.close() was accepted or the
\* consumer cancelled; closes counts these endings (an accepted close, a
\* cancel), closeCalls the calls of controller.close(), lateEnqueues the calls
\* of controller.enqueue() that threw because the channel was no longer
\* readable, outAtClose the number of events enqueued at the last ending.
\* closeRequested: controller.close() was accepted.  queued: chunks enqueued
\* before the close may still wait in the stream's queue; the consumer has
\* neither read to the end nor cancelled (how far it has read is not kept).
NewChannel ==
  [state |-> "readable", out |-> <<>>, calls |-> <<>>, nTokens |-> 0,
   closes |-> 0, closeCalls |-> 0, lateEnqueues |-> 0, outAtClose |-> 0,
   producer |-> "running", thrown |-> <<>>,
   cancelled |-> FALSE, startRejected |-> FALSE,
   closeRequested |-> FALSE, queued |-> FALSE]

\* controller.enqueue(chunk): throws a TypeError unless the stream is readable
controllerEnqueue(ch, chunk) ==
  IF ch.state = "readable"
  THEN [ok |-> TRUE, ch |-> [ch EXCEPT !.out = Append(@, chunk)]]
  ELSE [ok |-> FALSE, ch |-> [ch EXCEPT !.lateEnqueues = @ + 1]]

\* controller.close(): throws a TypeError unless the stream is readable.
\* The chunks enqueued before stay in the queue for the consumer to read.
controllerClose(ch) ==
  IF ch.state = "readable"
  THEN [ok |-> TRUE,
        ch |-> [ch EXCEPT !.state = "closed", !.closes = @ + 1, !.closeCalls = @ + 1,
                          !.outAtClose = Len(ch.out),
                          !.closeRequested = TRUE, !.queued = ch.out # <<>>]]
  ELSE [ok |-> FALSE, ch |-> [ch EXCEPT !.closeCalls = @ + 1]]

\* The stream is cancelled from the consumer side (reader.cancel(), client
\* gone): it takes no more chunks and the queue is emptied, so what the
\* consumer had not read of it is dropped.  sseStream gives the stream no
\* cancel callback: the producer is not told.  A stream that is closed and
\* read to its end, or cancelled before, is left as it is.
controllerCancel(ch) ==
  IF ch.state = "readable" \/ ch.queued
  THEN [ch EXCEPT !.state = "closed", !.closes = @ + 1, !.cancelled = TRUE,
                  !.outAtClose = Len(ch.out), !.queued = FALSE]
  ELSE ch

\* the consumer has read the queue of a closed stream to its end: the stream
\* is closed for the consumer too, and a cancel changes nothing any more
controllerDrained(ch) == [ch EXCEPT !.queued = FALSE]

\* the event text of one token: `data: ${t}\n\n`
Frame(t) == DATA_PREFIX \o t \o EVENT_END

\* an emit that writes the event to the client's channel itself, without the
\* controller and its test of the stream's state
emitUnchecked(ch, t) ==
  [ok |-> TRUE, ch |-> [ch EXCEPT !.calls = Append(@, t), !.out = Append(@, encode(Frame(t)))]]

\* emit = (t) => controller.enqueue(enc.encode(`data: ${t}\n\n`))
emit(ch, t) == controllerEnqueue([ch EXCEPT !.calls = Append(@, t)], encode(Frame(t)))

\* A thrown value: an Error with a message, or any other value (a string)
ErrorOf(m) == [isError |-> TRUE, message |-> m, value |-> <<>>]
ThrownValue(v) == [isError |-> FALSE, message |-> <<>>, value |-> v]

\* the TypeError controller.enqueue and controller.close throw on a stream
\* that is no longer readable: ERR_INVALID_STATE of the runtime, the same for both
StreamTypeError == ErrorOf(<<"I", "n", "v", "a", "l", "i", "d", " ", "s", "t", "a", "t", "e", ":", " ", "C", "o", "n", "t", "r", "o", "l", "l", "e", "r", " ", "i", "s", " ", "a", "l", "r", "e", "a", "d", "y", " ", "c", "l", "o", "s", "e", "d">>)

Returned == [k |-> "returned"]
Threw(e) == [k |-> "threw", e |-> e]

\* `${e instanceof Error ? e.message : e}`
errorText(e) == IF e.isError THEN e.message ELSE e.value

\* sseStream with the close moved in front of the sentinel
sseSettleSentinelAfterClose(ch, outcome) ==
  LET c0 == [ch EXCEPT !.producer = outcome.k, !.nTokens = Len(ch.calls),
                       !.thrown = IF outcome.k = "threw" THEN errorText(outcome.e) ELSE <<>>]
  IN With(controllerClose(c0), LAMBDA closed :
       emit(closed.ch, IF outcome.k = "returned" THEN DONE
                       ELSE ERROR_PREFIX \o errorText(outcome.e)).ch)

\* sseStream with emit("[DONE]") in the finally block
sseSettleDoneInFinally(ch, outcome) ==
  LET c0 == [ch EXCEPT !.producer = outcome.k, !.nTokens = Len(ch.calls),
                       !.thrown = IF outcome.k = "threw" THEN errorText(outcome.e) ELSE <<>>]
  IN With(IF outcome.k = "threw" THEN emit(c0, ERROR_PREFIX \o errorText(outcome.e))
          ELSE [ok |-> TRUE, ch |-> c0], LAMBDA handled :
       With(emit(handled.ch, DONE), LAMBDA finished :
         With(controllerClose(finished.ch), LAMBDA closed :
           [closed.ch EXCEPT !.startRejected = ~finished.ok \/ ~closed.ok])))

\* sseStream with controller.close() after the try block instead of in finally:
\* a throwing producer leaves the channel open
sseSettleNoCloseOnError(ch, outcome) ==
  LET c0 == [ch EXCEPT !.producer = outcome.k, !.nTokens = Len(ch.calls),
                       !.thrown = IF outcome.k = "threw" THEN errorText(outcome.e) ELSE <<>>]
  IN IF outcome.k = "threw" THEN emit(c0, ERROR_PREFIX \o errorText(outcome.e)).ch
     ELSE With(emit(c0, DONE), LAMBDA tried :
            IF tried.ok THEN controllerClose(tried.ch).ch
            ELSE emit(tried.ch, ERROR_PREFIX \o errorText(StreamTypeError)).ch)

\* sseStream's start(), from the moment the awaited producer settles:
\* try { ...; emit("[DONE]") } catch (e) { emit(`[ERROR] ...`) } finally { controller.close() }
sseSettle(ch, outcome) ==
  LET c0 == [ch EXCEPT !.producer = outcome.k, !.nTokens = Len(ch.calls),
                       !.thrown = IF outcome.k = "threw" THEN errorText(outcome.e) ELSE <<>>]
      caught == IF outcome.k = "threw" THEN outcome.e ELSE StreamTypeError
  IN With(IF outcome.k = "returned" THEN emit(c0, DONE) ELSE [ok |-> FALSE, ch |-> c0], LAMBDA tried :
       With(IF tried.ok THEN tried ELSE emit(tried.ch, ERROR_PREFIX \o errorText(caught)), LAMBDA handled :
         With(controllerClose(handled.ch), LAMBDA closed :
           [closed.ch EXCEPT !.startRejected = ~handled.ok \/ ~closed.ok])))

\* ---------------------------------------------------------------- responses

SSE_HEADERS == "text/event-stream; charset=utf-8"

\* the text of an error: a literal, followed by an interpolated cause (characters)
Msg(text) == [text |-> text, cause |-> <<>>]
MsgWith(text, cause) == [text |-> text, cause |-> cause]

NoResponse == [kind |-> "none", status |-> 0, ok |-> TRUE, error |-> Msg(""), contentType |-> ""]

\* json(o, status): new Response(JSON.stringify(o), { status }).  No header is
\* given: a Response with a string body gets the content type of plain text.
json(o, status) ==
  [kind |-> "json", status |-> status, ok |-> o.ok, error |-> o.error,
   contentType |-> "text/plain;charset=UTF-8"]

\* errorJson(message, status) = json({ ok: false, error: message }, status)
errorJson(message, status) == json([ok |-> FALSE, error |-> message], status)

\* new Response(stream, { headers: SSE_HEADERS })
streamResponse ==
  [kind |-> "stream", status |-> 200, ok |-> TRUE, error |-> Msg(""), contentType |-> SSE_HEADERS]

\* the promise POST returned is rejected: no Response at all
rejectedPromise ==
  [kind |-> "rejected", status |-> 0, ok |-> FALSE, error |-> Msg(""), contentType |-> ""]

NoSource == [kind |-> "none"]

\* What a handler leaves behind when it returns or suspends at its first await
Outcome(pcv, r, ch, s) == [pc |-> pcv, resp |-> r, chan |-> ch, src |-> s]
Finished(r) == Outcome("done", r, NewChannel, NoSource)

\* ------------------------------------------------------------------- mock

MOCK_REPLY_PREFIX == <<"M", "o", "c", "k", " ", "r", "e", "p", "l", "y", " ", "(", "n", "o", " ", "l", "i", "v", "e", " ", "m", "o", "d", "e", "l", ")", ".", " ", "Y", "o", "u", " ", "s", "a", "i", "d", ":", " ">>
HELLO == <<"H", "e", "l", "l", "o">>
MockSliceLen == 240

\* [...messages].reverse().find(m => m.role === "user")?.content || "Hello"
lastUserContent(messages) ==
  LET users == {i \in 1..Len(messages) : messages[i].role = "user"}
      found == IF users = {} THEN Undefined
               ELSE messages[CHOOSE i \in users : \A j \in users : j <= i].content
  IN Or(found, Str(HELLO)).s

\* `Mock reply (no live model). You said: ${lastUser.slice(0, 240)}`
baseReply(messages) ==
  LET lastUser == lastUserContent(messages)
  IN MOCK_REPLY_PREFIX \o slice(lastUser, 0, MockSliceLen)

\* the mock producer's loop ending with a throw instead of a return
mockStepThrowsAtEnd(ch, rest) ==
  IF rest = <<>> THEN [ch |-> sseSettle(ch, Threw(StreamTypeError)), rest |-> rest]
  ELSE With(emit(ch, <<Head(rest)>>), LAMBDA r :
         IF r.ok THEN [ch |-> r.ch, rest |-> Tail(rest)]
         ELSE [ch |-> sseSettle(r.ch, Threw(StreamTypeError)), rest |-> Tail(rest)])

\* One turn of the mock producer's loop: `for (const ch of baseReply) { emit(ch); await timer }`.
\* The iteration is by code points: a character outside the Basic Multilingual
\* Plane is one turn, and so is a surrogate standing alone.  The loop ends (the producer returns) when no character is left; a throwing
\* emit ends the producer with that error.
mockStep(ch, rest) ==
  IF rest = <<>> THEN [ch |-> sseSettle(ch, Returned), rest |-> rest]
  ELSE With(emit(ch, <<Head(rest)>>), LAMBDA r :
         IF r.ok THEN [ch |-> r.ch, rest |-> Tail(rest)]
         ELSE [ch |-> sseSettle(r.ch, Threw(StreamTypeError)), rest |-> Tail(rest)])

\* handleMock returning `new Response(stream)` without the SSE headers
handleMockNoHeaders(messages) ==
  LET first == mockStep(NewChannel, baseReply(messages))
  IN Outcome("streaming", [streamResponse EXCEPT !.contentType = ""], first.ch,
             [kind |-> "mock", rest |-> first.rest])

\* handleMock: builds the reply and the stream; start() runs the producer up
\* to its first await, so the first character is emitted before POST returns.
handleMock(messages) ==
  LET first == mockStep(NewChannel, baseReply(messages))
  IN Outcome("streaming", streamResponse, first.ch, [kind |-> "mock", rest |-> first.rest])

\* ---------------------------------------------------------- OpenAI / Azure

\* part.choices[0]?.delta?.content
tokenOf(part) ==
  IF part.choices = <<>> THEN Undefined
  ELSE IF ~part.choices[1].hasDelta THEN Undefined
  ELSE part.choices[1].delta.content

\* the loop body testing only that the content is a string: '' is emitted too
openAIStepEmitsEmpty(ch, part) ==
  LET token == tokenOf(part)
  IN IF token.k # "string" THEN [ok |-> TRUE, ch |-> ch] ELSE emit(ch, token.s)

\* One turn of `for await (const part of iterator) { ...; if (token) emit(token); }`:
\* the channel after it, and whether the body ran to its end (ok) or emit
\* threw.  A throw leaves the loop: `for await` calls iterator.return() and
\* awaits it before the error goes on to sseStream (see IteratorReturned).
openAIStep(ch, part) ==
  LET token == tokenOf(part)
  IN IF ~Truthy(token) THEN [ok |-> TRUE, ch |-> ch] ELSE emit(ch, token.s)

\* handleOpenAI up to `await client.chat.completions.create(...)`.  After the
\* key check, body.model?.trim() throws a TypeError when the model is neither
\* a string nor absent, and the construction of the client may throw
\* (clientFails); neither is caught: the handler's promise is rejected.
handleOpenAI(body, messages, e, clientFails) ==
  IF ~Truthy(e.OPENAI_API_KEY)
  THEN Finished(errorJson(Msg("OPENAI_API_KEY missing"), 500))
  ELSE IF body.model.k = "number" \/ clientFails.throws THEN Finished(rejectedPromise)
  ELSE Outcome("awaitCreate", NoResponse, NewChannel, NoSource)

\* handleAzure's configuration and authentication checks (lines 109-126):
\* "ok", or the error response.  body.model?.trim() in line 110 throws a
\* TypeError when the model is neither a string nor absent: the handler's
\* promise is rejected before any check is made.
azureConfigCheck(body, e) ==
  LET endpoint == OptTrim(e.AZURE_OPENAI_ENDPOINT)
      deployment == Or(OptTrim(body.model), OptTrim(e.AZURE_OPENAI_DEPLOYMENT))
      apiVersion == OptTrim(e.AZURE_OPENAI_API_VERSION)
      managedIdentityClientId ==
        Or(OptTrim(e.AZURE_OPENAI_CLIENTID), OptTrim(e.AZURE_MANAGED_IDENTITY_CLIENT_ID))
      useManagedIdentity == Truthy(managedIdentityClientId)
      azureKey == IF useManagedIdentity THEN Undefined
                  ELSE Or(Or(OptTrim(e.AZURE_OPENAI_API_KEY), OptTrim(e.OPENAI_API_KEY)), Undefined)
  IN IF body.model.k = "number"
     THEN [ok |-> FALSE, useManagedIdentity |-> FALSE, resp |-> rejectedPromise]
     ELSE IF ~Truthy(endpoint) \/ ~Truthy(deployment) \/ ~Truthy(apiVersion)
     THEN [ok |-> FALSE, useManagedIdentity |-> useManagedIdentity,
           resp |-> errorJson(Msg("Azure config missing (need AZURE_OPENAI_ENDPOINT, AZURE_OPENAI_DEPLOYMENT, AZURE_OPENAI_API_VERSION)"), 500)]
     ELSE IF ~useManagedIdentity /\ ~Truthy(azureKey)
     THEN [ok |-> FALSE, useManagedIdentity |-> useManagedIdentity,
           resp |-> errorJson(Msg("Azure auth missing (set AZURE_OPENAI_CLIENTID + optional AZURE_OPENAI_SCOPE for managed identity OR provide AZURE_OPENAI_API_KEY)"), 500)]
     ELSE [ok |-> TRUE, useManagedIdentity |-> useManagedIdentity, resp |-> NoResponse]

\* handleAzure up to `await client.chat.completions.create(...)`.  credentialFails:
\* the construction of the credential or of the client throws.  With managed
\* identity it is caught (lines 130-146); with an API key the client is
\* constructed outside any try block (line 154) and the handler's promise is
\* rejected.
handleAzure(body, messages, e, credentialFails) ==
  LET check == azureConfigCheck(body, e)
  IN IF ~check.ok THEN Finished(check.resp)
     ELSE IF check.useManagedIdentity /\ credentialFails.throws
     THEN Finished(errorJson(MsgWith("Managed identity auth failed: ", errorText(credentialFails.e)), 500))
     ELSE IF credentialFails.throws THEN Finished(rejectedPromise)
     ELSE Outcome("awaitCreate", NoResponse, NewChannel, NoSource)

\* handleOllama up to `await fetch(url, ...)`: body.model?.trim() in line 77
\* throws a TypeError when the model is neither a string nor absent
handleOllama(body, messages, e) ==
  IF body.model.k = "number" THEN Finished(rejectedPromise)
  ELSE Outcome("awaitFetch", NoResponse, NewChannel, NoSource)

\* what POST's promise settles with when the awaited create() call rejects:
\* handleAzure catches it, handleOpenAI does not, and POST returns the
\* handler's promise without awaiting it inside its try block
createRejected(h, e) ==
  IF h = AZURE
  THEN errorJson(IF e.isError THEN MsgWith("", e.message) ELSE Msg("azure init failed"), 500)
  ELSE rejectedPromise

\* ------------------------------------------------------------------ Ollama

\* The upstream body is a sequence of bytes.  A byte below 0x80 is written as
\* its character; UTF8_LEAD and UTF8_CONT are the two bytes of the character
\* E_ACUTE (U+00E9), and REPLACEMENT (U+FFFD) is what a decoder puts for
\* a byte sequence that is no character.
UTF8_LEAD == "0xC3"
UTF8_CONT == "0xA9"
E_ACUTE == "U+00E9"

\* the character that starts at byte i of s
utf8CharAt(s, i) ==
  IF s[i] = UTF8_LEAD
  THEN (IF i < Len(s) /\ s[i + 1] = UTF8_CONT THEN E_ACUTE ELSE REPLACEMENT)
  ELSE IF s[i] = UTF8_CONT THEN REPLACEMENT
  ELSE s[i]

\* the text of the bytes s, of which the positions in `held` are left out:
\* one character for every byte that is not the second byte of a character
utf8Text(s, held) ==
  With({i \in 1..Len(s) : i \in held \/ (s[i] = UTF8_CONT /\ i > 1 /\ s[i - 1] = UTF8_LEAD)},
       LAMBDA skipped :
         [j \in 1..(Len(s) - Cardinality(skipped)) |->
            utf8CharAt(s, CHOOSE i \in j..(j + Cardinality(skipped)) :
                            /\ i \notin skipped
                            /\ i - Cardinality({x \in skipped : x < i}) = j)])

\* td.decode(value, { stream: true }): the text of the pending bytes and the
\* bytes of value, and the bytes of an unfinished character at the end, which
\* the decoder keeps for the next call
tdDecode(pending, value) ==
  With(pending \o value, LAMBDA s :
    IF Len(s) > 0 /\ s[Len(s)] = UTF8_LEAD
    THEN [text |-> utf8Text(s, {Len(s)}), pending |-> <<UTF8_LEAD>>]
    ELSE [text |-> utf8Text(s, {}), pending |-> <<>>])

\* String.prototype.split(/\n+/)
RECURSIVE split(_)
split(s) ==
  LET nl == {i \in 1..Len(s) : s[i] = "\n"}
  IN IF nl = {} THEN <<s>>
     ELSE LET i == CHOOSE x \in nl : \A y \in nl : x <= y
              after == {x \in (i + 1)..Len(s) : s[x] # "\n"}
              j == IF after = {} THEN Len(s) + 1 ELSE CHOOSE x \in after : \A y \in after : x <= y
          IN <<SubSeq(s, 1, i - 1)>> \o split(SubSeq(s, j, Len(s)))

JSON_MESSAGE_OPEN == <<"{", "\"", "m", "e", "s", "s", "a", "g", "e", "\"", ":", "{", "\"", "c", "o", "n", "t", "e", "n", "t", "\"", ":", "\"">>
JSON_MESSAGE_CLOSE == <<"\"", "}">>
JSON_DONE_TRUE == <<",", "\"", "d", "o", "n", "e", "\"", ":", "t", "r", "u", "e">>
JSON_DONE_ONLY == <<"{", "\"", "d", "o", "n", "e", "\"", ":", "t", "r", "u", "e", "}">>
JSON_NULL == <<"n", "u", "l", "l">>

\* the JSON text of one upstream line: {"message":{"content":"<c>"}} with
\* ,"done":true when done
OllamaLine(c, done) ==
  JSON_MESSAGE_OPEN \o c \o JSON_MESSAGE_CLOSE \o (IF done THEN JSON_DONE_TRUE ELSE <<>>) \o <<"}">>

HI == <<"H", "i">>
HI_THERE == <<"H", "i", " ", "t", "h", "e", "r", "e">>
HI_THERE_BANG == <<"H", "i", " ", "t", "h", "e", "r", "e", "!">>
HI_E == <<"H", "i", E_ACUTE>>

\* ---- JSON.parse

\* The values JSON.parse returns: a string is Str(s); the others are
JsNull == [k |-> "null"]
JsBoolean(b) == [k |-> "boolean", b |-> b]
\* a number, of which the code reads no more than whether it is 0
JsNumber(zero) == [k |-> "number", zero |-> zero]
JsArray(items) == [k |-> "array", items |-> items]
\* an object: its members in the order of the text, each [key, value]
JsObject(members) == [k |-> "object", members |-> members]

\* the result of a parse that failed (a SyntaxError)
JsonFail == [ok |-> FALSE, value |-> JsNull, next |-> 0]
JsonOk(value, next) == [ok |-> TRUE, value |-> value, next |-> next]

DIGITS == {"0", "1", "2", "3", "4", "5", "6", "7", "8", "9"}

\* the index of the first character of s at or after i that is no JSON white
\* space (Len(s) + 1 when there is none)
skipWs(s, i) ==
  CHOOSE j \in i..(Len(s) + 1) :
    /\ j > Len(s) \/ s[j] \notin {" ", "\t", "\n", "\r"}
    /\ \A x \in i..(j - 1) : s[x] \in {" ", "\t", "\n", "\r"}

\* the index of the first character of s at or after i that is no digit
digitsEnd(s, i) ==
  CHOOSE j \in i..(Len(s) + 1) :
    /\ j > Len(s) \/ s[j] \notin DIGITS
    /\ \A x \in i..(j - 1) : s[x] \in DIGITS

\* the number of backslashes that stand in a row right before position j of s
backslashesBefore(s, j) ==
  CHOOSE r \in 0..(j - 1) :
    /\ \A x \in (j - r)..(j - 1) : s[x] = "\\"
    /\ j - r = 1 \/ s[j - r - 1] # "\\"

\* the value of four hexadecimal digits, in either case
hex4(s, i) ==
  hexValue(toUpperHex(s[i]) \o toUpperHex(s[i + 1]) \o toUpperHex(s[i + 2]) \o toUpperHex(s[i + 3]))

\* position x of s starts an escape \uXXXX
isUnicodeEscape(s, x) ==
  /\ x + 5 <= Len(s) /\ s[x] = "\\" /\ s[x + 1] = "u"
  /\ \A h \in (x + 2)..(x + 5) : toUpperHex(s[h]) \in DIGITS \cup {"A", "B", "C", "D", "E", "F"}

\* position x of s starts the escapes of a surrogate pair: \uD800-\uDBFF, \uDC00-\uDFFF
isPairEscape(s, x) ==
  /\ isUnicodeEscape(s, x) /\ hex4(s, x + 2) \in 55296..56319
  /\ isUnicodeEscape(s, x + 6) /\ hex4(s, x + 8) \in 56320..57343

\* the character an escape at position x of s stands for
unescapeAt(s, x) ==
  CASE isPairEscape(s, x) ->
         fromCodePoint(65536 + (hex4(s, x + 2) - 55296) * 1024 + (hex4(s, x + 8) - 56320))
    [] s[x + 1] = "u" -> fromCodePoint(hex4(s, x + 2))
    [] s[x + 1] = "b" -> "U+0008"
    [] s[x + 1] = "f" -> "\f"
    [] s[x + 1] = "n" -> "\n"
    [] s[x + 1] = "r" -> "\r"
    [] s[x + 1] = "t" -> "\t"
    [] OTHER -> s[x + 1]

\* the text of a JSON string, given what stands between its quotes: the
\* escapes replaced by their characters; no text when an escape is no escape
\* of JSON or a control character stands unescaped
unescape(s) ==
  With({x \in 1..Len(s) : s[x] = "\\" /\ backslashesBefore(s, x) % 2 = 0}, LAMBDA escapes :
    IF \E x \in 1..Len(s) :
         s[x] \in {"\t", "\n", "\f", "\r"} \/ (Len(s[x]) = 6 /\ SubSeq(s[x], 1, 5) \in {"U+000", "U+001"})
    THEN [ok |-> FALSE, s |-> <<>>]
    ELSE IF escapes = {} THEN [ok |-> TRUE, s |-> s]
    ELSE IF \E x \in escapes :
              ~(\/ x < Len(s) /\ s[x + 1] \in {"\"", "\\", "/", "b", "f", "n", "r", "t"}
                \/ isUnicodeEscape(s, x))
    THEN [ok |-> FALSE, s |-> <<>>]
    ELSE With(UNION {(x + 1)..(x + (IF isPairEscape(s, x) THEN 11
                                    ELSE IF s[x + 1] = "u" THEN 5 ELSE 1)) : x \in escapes},
              LAMBDA skipped :
                [ok |-> TRUE,
                 s |-> [j \in 1..(Len(s) - Cardinality(skipped)) |->
                         With(CHOOSE x \in j..(j + Cardinality(skipped)) :
                                /\ x \notin skipped
                                /\ x - Cardinality({y \in skipped : y < x}) = j,
                              LAMBDA x : IF x \in escapes THEN unescapeAt(s, x) ELSE s[x])]]))

\* a JSON string that starts (with its quote) at position i of s
jsonString(s, i) ==
  With({j \in (i + 1)..Len(s) : s[j] = "\"" /\ backslashesBefore(s, j) % 2 = 0}, LAMBDA quotes :
    IF quotes = {} THEN JsonFail
    ELSE With(CHOOSE j \in quotes : \A x \in quotes : j <= x, LAMBDA j :
           With(unescape(SubSeq(s, i + 1, j - 1)), LAMBDA text :
             IF text.ok THEN JsonOk(Str(text.s), j + 1) ELSE JsonFail)))

\* The digits of 2^-1075 = 2.4703...e-324, half the smallest number above 0:
\* 5^1075, all of its 752 digits.  A number of no more than that is read as 0
\* (the nearest value; of two equally near ones the even one, which is 0).
HALF_MIN_VALUE ==
  "2470328229206232720882843964341106861825299013071623822127928412503377536351043759326499181808"
    \o "1799618989828234772285886546332835517796989819938739800539093906315035659515570226392290858392"
    \o "4491051844359318028499365361525003193704576782492193656236698636584807570015857692699037063119"
    \o "2827955855133292783433840935197801553124659726357957462276646527282722005637400648549997709659"
    \o "9470454020828166226237857393450736339007967761930577506740176324673600968951340535537458516661"
    \o "1342237666786041621596804619144672918403005300575308490487653917113865916462395249126236538818"
    \o "7963623937328042389101867234849766823508986338858792562830275599565752445550725518931369083625"
    \o "4779186948667994968324049705821028513185451396213837722826145437693412532098591327667236328125"

\* the value of a decimal digit
digitValue(d) == CHOOSE v \in 0..9 : HEX[v + 1] = d

\* a numeral without the zeros in front of it (of a zero nothing is left)
significant(digits) ==
  With({x \in 1..Len(digits) : digits[x] # "0"}, LAMBDA nonzero :
    IF nonzero = {} THEN <<>>
    ELSE SubSeq(digits, CHOOSE x \in nonzero : \A y \in nonzero : x <= y, Len(digits)))

\* the decimal numeral of a natural number, without zeros in front
RECURSIVE numeralOf(_)
numeralOf(n) == IF n = 0 THEN <<>> ELSE numeralOf(n \div 10) \o <<HEX[(n % 10) + 1]>>

\* two numerals without zeros in front compared as numbers, whatever their
\* length: -1 (the first is less), 0 or 1
compareNumerals(a, b) ==
  IF Len(a) # Len(b) THEN (IF Len(a) < Len(b) THEN -1 ELSE 1)
  ELSE With({x \in 1..Len(a) : a[x] # b[x]}, LAMBDA differ :
         IF differ = {} THEN 0
         ELSE With(CHOOSE x \in differ : \A y \in differ : x <= y, LAMBDA x :
                IF digitValue(a[x]) < digitValue(b[x]) THEN -1 ELSE 1))

\* an exponent, given by its sign and its digits (any number of them),
\* compared with the integer t: -1 (the exponent is less), 0 or 1
compareExponent(negative, digits, t) ==
  With(significant(digits), LAMBDA e :
    IF e = <<>> THEN (IF 0 < t THEN -1 ELSE IF 0 = t THEN 0 ELSE 1)
    ELSE IF negative
    THEN (IF t >= 0 THEN -1 ELSE 0 - compareNumerals(e, numeralOf(0 - t)))
    ELSE (IF t <= 0 THEN 1 ELSE compareNumerals(e, numeralOf(t))))

\* the number with the digits `mantissa`, of which `whole` stand before the
\* point, times ten to the exponent (its sign and its digits), is read as 0:
\* it is 0 or no more than 2^-1075
readsAsZero(mantissa, whole, negative, exponent) ==
  With({x \in 1..Len(mantissa) : mantissa[x] # "0"}, LAMBDA nonzero :
    IF nonzero = {} THEN TRUE
    ELSE With(CHOOSE x \in nonzero : \A y \in nonzero : x <= y, LAMBDA first :
           \* the number is d.ddd times ten to the power of whole - first + exponent:
           \* that power is compared with -324
           With(compareExponent(negative, exponent, first - whole - 324), LAMBDA scale :
             \/ scale < 0
             \/ /\ scale = 0
                /\ With(SubSeq(mantissa, first, Len(mantissa)), LAMBDA d :
                     With({x \in 1..(IF Len(d) > Len(HALF_MIN_VALUE) THEN Len(d) ELSE Len(HALF_MIN_VALUE)) :
                             (IF x <= Len(d) THEN d[x] ELSE "0")
                               # (IF x <= Len(HALF_MIN_VALUE) THEN SubSeq(HALF_MIN_VALUE, x, x) ELSE "0")},
                          LAMBDA differ :
                            \/ differ = {}
                            \/ With(CHOOSE x \in differ : \A y \in differ : x <= y, LAMBDA x :
                                 (IF x <= Len(d) THEN digitValue(d[x]) ELSE 0)
                                   < (IF x <= Len(HALF_MIN_VALUE)
                                      THEN digitValue(SubSeq(HALF_MIN_VALUE, x, x)) ELSE 0)))))))

\* a JSON number that starts at position i of s:
\* -? (0 | [1-9][0-9]*) (. [0-9]+)? ([eE] [+-]? [0-9]+)?
jsonNumber(s, i) ==
  With(IF s[i] = "-" THEN i + 1 ELSE i, LAMBDA start :
    With(IF start <= Len(s) /\ s[start] = "0" THEN start + 1 ELSE digitsEnd(s, start), LAMBDA intEnd :
      With(IF intEnd <= Len(s) /\ s[intEnd] = "." THEN digitsEnd(s, intEnd + 1) ELSE intEnd,
           LAMBDA fracEnd :
        With(IF fracEnd <= Len(s) /\ s[fracEnd] \in {"e", "E"}
             THEN (IF fracEnd + 1 <= Len(s) /\ s[fracEnd + 1] \in {"+", "-"}
                   THEN fracEnd + 2 ELSE fracEnd + 1)
             ELSE fracEnd, LAMBDA expStart :
          With(IF expStart > fracEnd THEN digitsEnd(s, expStart) ELSE fracEnd, LAMBDA expEnd :
            IF \/ intEnd = start
               \/ fracEnd = intEnd + 1
               \/ (expStart > fracEnd /\ expEnd = expStart)
            THEN JsonFail
            ELSE JsonOk(JsNumber(readsAsZero(
                          SubSeq(s, start, intEnd - 1) \o SubSeq(s, intEnd + 1, fracEnd - 1),
                          intEnd - start,
                          expStart > fracEnd /\ s[expStart - 1] = "-",
                          SubSeq(s, expStart, expEnd - 1))),
                        expEnd))))))

\* the text t stands at position i of s
standsAt(s, i, t) == i + Len(t) - 1 <= Len(s) /\ SubSeq(s, i, i + Len(t) - 1) = t

RECURSIVE jsonValue(_, _), jsonMembers(_, _, _), jsonElements(_, _, _)

\* the JSON value that starts at position i of s (no white space at i)
jsonValue(s, i) ==
  IF i > Len(s) THEN JsonFail
  ELSE CASE s[i] = "{" ->
              With(skipWs(s, i + 1), LAMBDA j :
                IF j <= Len(s) /\ s[j] = "}" THEN JsonOk(JsObject(<<>>), j + 1)
                ELSE jsonMembers(s, j, <<>>))
         [] s[i] = "[" ->
              With(skipWs(s, i + 1), LAMBDA j :
                IF j <= Len(s) /\ s[j] = "]" THEN JsonOk(JsArray(<<>>), j + 1)
                ELSE jsonElements(s, j, <<>>))
         [] s[i] = "\"" -> jsonString(s, i)
         [] s[i] = "-" \/ s[i] \in DIGITS -> jsonNumber(s, i)
         [] standsAt(s, i, <<"t", "r", "u", "e">>) -> JsonOk(JsBoolean(TRUE), i + 4)
         [] standsAt(s, i, <<"f", "a", "l", "s", "e">>) -> JsonOk(JsBoolean(FALSE), i + 5)
         [] standsAt(s, i, <<"n", "u", "l", "l">>) -> JsonOk(JsNull, i + 4)
         [] OTHER -> JsonFail

\* the members of an object from position i of s (a key is to stand there)
\* to the closing brace, after the members `before`
jsonMembers(s, i, before) ==
  IF i > Len(s) \/ s[i] # "\"" THEN JsonFail
  ELSE With(jsonString(s, i), LAMBDA key :
         IF ~key.ok THEN JsonFail
         ELSE With(skipWs(s, key.next), LAMBDA colon :
                IF colon > Len(s) \/ s[colon] # ":" THEN JsonFail
                ELSE With(jsonValue(s, skipWs(s, colon + 1)), LAMBDA v :
                       IF ~v.ok THEN JsonFail
                       ELSE With([at |-> skipWs(s, v.next),
                                  all |-> Append(before, [key |-> key.value.s, value |-> v.value])],
                                 LAMBDA r :
                              IF r.at > Len(s) THEN JsonFail
                              ELSE IF s[r.at] = "}" THEN JsonOk(JsObject(r.all), r.at + 1)
                              ELSE IF s[r.at] = "," THEN jsonMembers(s, skipWs(s, r.at + 1), r.all)
                              ELSE JsonFail))))

\* the elements of an array from position i of s to the closing bracket
jsonElements(s, i, before) ==
  With(jsonValue(s, i), LAMBDA v :
    IF ~v.ok THEN JsonFail
    ELSE With([at |-> skipWs(s, v.next), all |-> Append(before, v.value)], LAMBDA r :
           IF r.at > Len(s) THEN JsonFail
           ELSE IF s[r.at] = "]" THEN JsonOk(JsArray(r.all), r.at + 1)
           ELSE IF s[r.at] = "," THEN jsonElements(s, skipWs(s, r.at + 1), r.all)
           ELSE JsonFail))

\* JSON.parse(line): the value, or a SyntaxError (ok is FALSE)
JSONparse(line) ==
  With(jsonValue(line, skipWs(line, 1)), LAMBDA v :
    IF v.ok /\ skipWs(line, v.next) > Len(line) THEN [ok |-> TRUE, value |-> v.value]
    ELSE [ok |-> FALSE, value |-> JsNull])

\* Boolean(v) of any value
ToBoolean(v) ==
  CASE v.k = "string" -> v.s # <<>>
    [] v.k = "number" -> ~v.zero
    [] v.k = "boolean" -> v.b
    [] v.k \in {"object", "array"} -> TRUE
    [] OTHER -> FALSE

\* v[key] of a value that is neither null nor undefined: the member of that
\* key an object holds (the last one in the text), undefined otherwise
Get(v, key) ==
  IF v.k # "object" THEN Undefined
  ELSE With({x \in 1..Len(v.members) : v.members[x].key = key}, LAMBDA found :
         IF found = {} THEN Undefined
         ELSE v.members[CHOOSE x \in found : \A y \in found : y <= x].value)

MESSAGE == <<"m", "e", "s", "s", "a", "g", "e">>
CONTENT == <<"c", "o", "n", "t", "e", "n", "t">>

\* obj.message?.content
messageContent(obj) ==
  With(Get(obj, MESSAGE), LAMBDA message :
    IF message.k \in {"undefined", "null"} THEN Undefined ELSE Get(message, CONTENT))

\* the loop body emitting the full content of every line, without the prefix cut
ollamaObjectNoDelta(ch, lastFull, obj) ==
  With([full |-> messageContent(obj), done |-> ToBoolean(Get(obj, <<"d", "o", "n", "e">>))], LAMBDA o :
    IF ~ToBoolean(o.full) THEN [ch |-> ch, lastFull |-> lastFull, returned |-> o.done]
    ELSE IF o.full.k # "string" THEN [ch |-> ch, lastFull |-> lastFull, returned |-> FALSE]
    ELSE With(emit(ch, o.full.s), LAMBDA r :
           [ch |-> r.ch, lastFull |-> o.full.s, returned |-> r.ok /\ o.done]))

\* the body of `for (const line of lines)` for one parsed line (lines 93-100).
\* A content that is truthy and no string has no startsWith: the TypeError is
\* caught with the parse errors, and so is the one of a throwing emit;
\* `if (obj.done) return` is skipped then.
ollamaObject(ch, lastFull, obj) ==
  With([full |-> messageContent(obj), done |-> ToBoolean(Get(obj, <<"d", "o", "n", "e">>))], LAMBDA o :
    IF ~ToBoolean(o.full) THEN [ch |-> ch, lastFull |-> lastFull, returned |-> o.done]
    ELSE IF o.full.k # "string" THEN [ch |-> ch, lastFull |-> lastFull, returned |-> FALSE]
    ELSE With(IF startsWith(o.full.s, lastFull)
              THEN slice(o.full.s, length(lastFull), length(o.full.s))
              ELSE o.full.s, LAMBDA delta :
           IF delta = <<>> THEN [ch |-> ch, lastFull |-> o.full.s, returned |-> o.done]
           ELSE With(emit(ch, delta), LAMBDA r :
                  [ch |-> r.ch, lastFull |-> o.full.s, returned |-> r.ok /\ o.done])))

\* the loop body with a return in the catch block: a line that is no JSON ends the producer
ollamaLineStopsAtBad(ch, lastFull, line) ==
  IF trim(line) = <<>> THEN [ch |-> ch, lastFull |-> lastFull, returned |-> FALSE]
  ELSE With(JSONparse(line), LAMBDA p :
         IF ~p.ok \/ p.value.k = "null"
         THEN [ch |-> ch, lastFull |-> lastFull, returned |-> TRUE]
         ELSE ollamaObject(ch, lastFull, p.value))

\* the body of `for (const line of lines)` for one line: the channel and
\* lastFull after it, and whether the producer returned (obj.done).  A line
\* that is no JSON throws a SyntaxError and the value null a TypeError (it
\* has no properties); both are caught and the line is passed over.
ollamaLine(ch, lastFull, line) ==
  IF trim(line) = <<>> THEN [ch |-> ch, lastFull |-> lastFull, returned |-> FALSE]
  ELSE With(JSONparse(line), LAMBDA p :
         IF ~p.ok \/ p.value.k = "null"
         THEN [ch |-> ch, lastFull |-> lastFull, returned |-> FALSE]
         ELSE ollamaObject(ch, lastFull, p.value))

RECURSIVE ollamaLines(_, _, _)
ollamaLines(ch, lastFull, lines) ==
  IF lines = <<>> THEN [ch |-> ch, lastFull |-> lastFull, returned |-> FALSE]
  ELSE With(ollamaLine(ch, lastFull, Head(lines)), LAMBDA one :
         IF one.returned THEN one ELSE ollamaLines(one.ch, one.lastFull, Tail(lines)))

\* the lines of `for (const line of lines)` that reach JSON.parse, in order
RECURSIVE parsedLines(_, _, _)
parsedLines(ch, lastFull, lines) ==
  IF lines = <<>> THEN <<>>
  ELSE With(ollamaLine(ch, lastFull, Head(lines)), LAMBDA one :
         (IF trim(Head(lines)) = <<>> THEN <<>> ELSE <<Head(lines)>>)
           \o (IF one.returned THEN <<>> ELSE parsedLines(one.ch, one.lastFull, Tail(lines))))

\* `return` in the producer (line 100): the promise `await producer(emit)`
\* waits for is fulfilled; start() resumes in a later microtask
producerReturns(ch) == [ch EXCEPT !.producer = "returned", !.nTokens = Len(ch.calls)]

\* the read loop without `buffer +=`: what a read left unfinished is dropped
ollamaReadNoCarry(ch, buffer, lastFull, value) ==
  With(split(value), LAMBDA lines :
    With(ollamaLines(ch, lastFull, SubSeq(lines, 1, Len(lines) - 1)), LAMBDA done :
      [ch |-> IF done.returned THEN producerReturns(done.ch) ELSE done.ch,
       buffer |-> lines[Len(lines)], lastFull |-> done.lastFull]))

\* One turn of the read loop for a read whose decoded text is `value`, up to
\* the next `await reader.read()` or to the `return` of line 100.  The
\* sentinel is not written here: after the return, start() goes on from
\* `await producer(emit)` in a microtask of its own (see OllamaReturned).
ollamaRead(ch, buffer, lastFull, value) ==
  With(split(buffer \o value), LAMBDA lines :
    With(ollamaLines(ch, lastFull, SubSeq(lines, 1, Len(lines) - 1)), LAMBDA done :
      [ch |-> IF done.returned THEN producerReturns(done.ch) ELSE done.ch,
       buffer |-> lines[Len(lines)], lastFull |-> done.lastFull]))

\* the end of the body with the line buffer parsed as a last line
ollamaReadEndFlushes(ch, buffer, lastFull) ==
  With(ollamaLines(ch, lastFull, <<buffer>>), LAMBDA last : sseSettle(last.ch, Returned))

\* `if (done) break`: the loop ends and the producer returns; what the line
\* buffer holds is not looked at
ollamaReadEnd(ch, buffer, lastFull) == sseSettle(ch, Returned)

\* handleOllama after `await fetch(...)` resolved, up to its return: the
\* error response, or the stream built and its producer suspended at the
\* first `await reader.read()`.  The Response around the stream reaches
\* POST's caller some microtasks later (see ReturnResponse).
ollamaFetched(upstream) ==
  IF ~upstream.ok \/ ~upstream.hasBody
  THEN Finished(errorJson(MsgWith("ollama upstream ", upstream.status), 500))
  ELSE Outcome("streaming", NoResponse, NewChannel,
               [kind |-> "ollama", buffer |-> <<>>, lastFull |-> <<>>, td |-> <<>>,
                up |-> upstream.body])

\* --------------------------------------------------------------------- POST

MaxMessages == 64

\* the handler POST's switch invokes, with the name of the handler and the
\* message list it is given
dispatch(provider, body, messages, e, credentialFails) ==
  LET o == CASE provider = AZURE -> handleAzure(body, messages, e, credentialFails)
             [] provider = OPENAI -> handleOpenAI(body, messages, e, credentialFails)
             [] provider = OLLAMA -> handleOllama(body, messages, e)
             [] provider = MOCK -> handleMock(messages)
             [] OTHER -> Finished(errorJson(MsgWith("Unknown provider '", provider \o <<"'">>), 400))
  IN [pc |-> o.pc, resp |-> o.resp, chan |-> o.chan, src |-> o.src,
      handler |-> IF provider \in Provider THEN provider ELSE <<>>,
      messages |-> messages, provider |-> provider]

\* no handler was invoked
NotDispatched(r) ==
  [pc |-> "done", resp |-> r, chan |-> NewChannel, src |-> NoSource,
   handler |-> <<>>, messages |-> <<>>, provider |-> <<>>]

\* line 191: if (!Array.isArray(body.messages) || body.messages.length === 0) return errorJson(...)
requireMessages(body) ==
  IF body.messages.k # "array" \/ Len(body.messages.list) = 0
  THEN errorJson(Msg("messages required"), 400)
  ELSE NoResponse

\* the check of line 192 with >= for >
limitMessagesOffByOne(body) ==
  IF Len(body.messages.list) >= MaxMessages
  THEN errorJson(Msg("too many messages (max 64)"), 400)
  ELSE NoResponse

\* line 192: if (body.messages.length > 64) return errorJson(...)
limitMessages(body) ==
  IF Len(body.messages.list) > MaxMessages
  THEN errorJson(Msg("too many messages (max 64)"), 400)
  ELSE NoResponse

\* POST, from the parsed (or unparseable) body to the handler's first await.
\* Reading body.messages of a null body, trimming a content that is no
\* string and lower-casing a provider that is no string throw a TypeError
\* outside any try block: POST's promise rejects.
POSTsync(body, e, credentialFails) ==
  IF body.json = "invalid" THEN NotDispatched(errorJson(Msg("Invalid JSON"), 400))
  ELSE IF body.json = "null" THEN NotDispatched(rejectedPromise)
  ELSE IF requireMessages(body).kind # "none" THEN NotDispatched(requireMessages(body))
  ELSE IF limitMessages(body).kind # "none" THEN NotDispatched(limitMessages(body))
  ELSE IF sanitizeThrows(body.messages.list) THEN NotDispatched(rejectedPromise)
  ELSE With(sanitizeMessages(body.messages.list), LAMBDA sanitized :
         IF Len(sanitized) = 0
         THEN NotDispatched(errorJson(Msg("no non-empty messages"), 400))
         ELSE With(detectProvider(body.provider, e), LAMBDA detected :
                IF detected = TypeErrorThrown THEN NotDispatched(rejectedPromise)
                ELSE dispatch(detected, body, sanitized, e, credentialFails)))

\* ------------------------------------------------------------------- inputs

V == Str(<<"v">>)
Blank == Str(<<" ">>)

EnvNone ==
  [AZURE_OPENAI_ENDPOINT |-> Undefined, AZURE_OPENAI_DEPLOYMENT |-> Undefined,
   AZURE_OPENAI_API_VERSION |-> Undefined, AZURE_OPENAI_API_KEY |-> Undefined,
   AZURE_OPENAI_CLIENTID |-> Undefined, AZURE_MANAGED_IDENTITY_CLIENT_ID |-> Undefined,
   OPENAI_API_KEY |-> Undefined,
   OLLAMA_BASE_URL |-> Undefined, OLLAMA_MODEL |-> Undefined]
EnvAzureBase ==
  [EnvNone EXCEPT !.AZURE_OPENAI_ENDPOINT = V, !.AZURE_OPENAI_DEPLOYMENT = V,
                  !.AZURE_OPENAI_API_VERSION = V]

\* the environments of the request pipeline
Envs ==
  { EnvNone,
    [EnvNone EXCEPT !.OPENAI_API_KEY = V],
    [EnvAzureBase EXCEPT !.AZURE_OPENAI_API_KEY = V],
    [EnvAzureBase EXCEPT !.AZURE_MANAGED_IDENTITY_CLIENT_ID = V],
    [EnvAzureBase EXCEPT !.AZURE_OPENAI_API_KEY = V, !.AZURE_OPENAI_ENDPOINT = Blank],
    [EnvAzureBase EXCEPT !.AZURE_OPENAI_API_KEY = V, !.AZURE_OPENAI_DEPLOYMENT = Undefined],
    [EnvAzureBase EXCEPT !.OPENAI_API_KEY = V] }

User(c) == [role |-> "user", content |-> c]
Assistant(c) == [role |-> "assistant", content |-> c]
Hi == Str(<<"h", "i">>)
Padded == Str(<<" ", "a", " ">>)
\* a content one character longer than the mock reply quotes
Long == Str(<<"a">> \o Rep(MockSliceLen - 1, "x") \o <<"y">>)
\* a content of which the 240th and 241st code unit are one character (U+1F600)
LongWide == Str(<<"a">> \o Rep(MockSliceLen - 2, "x") \o <<"U+1F600">>)

Messages == {User(Hi), User(Padded), Assistant(Str(<<"o", "k">>)), User(Blank),
             User(Str(<<>>)), User(Undefined), User(NotAString),
             User(Str(<<"\r", "U+00A0">>)), User(Str(<<"U+FEFF", "a", "\r", "\n">>))}

Array(list) == [k |-> "array", list |-> list]

\* the values of the body's messages field
MessageFields ==
  {[k |-> "undefined", list |-> <<>>], [k |-> "string", list |-> <<>>]}
  \cup {Array(<<>>)}
  \cup {Array(<<m>>) : m \in Messages}
  \cup {Array(<<m, n>>) : m \in Messages, n \in {User(Hi), User(Blank), Assistant(Str(<<"o", "k">>))}}
  \cup {Array(Rep(n, m)) : n \in {MaxMessages, MaxMessages + 1}, m \in {User(Hi), User(Blank)}}
  \cup {Array(<<User(Hi)>> \o Rep(MaxMessages - 1, User(Blank))),
        Array(<<User(Hi)>> \o Rep(MaxMessages, User(Blank)))}
  \cup {Array(<<User(Hi), User(Long), Assistant(Hi)>>), Array(<<User(LongWide)>>)}

\* the values of the body's provider field
ProviderFields ==
  {Undefined, Str(<<>>), Str(MOCK), Str(<<"M", "O", "C", "K">>), Str(OPENAI), Str(AZURE),
   Str(<<" ", "A", "z", "u", "r", "e", " ">>), Str(OLLAMA),
   Str(<<"O", "l", "l", "a", "m", "a">>), Str(<<"f", "o", "o">>),
   Str(<<"m", "o", " ", "c", "k">>), NotAString,
   Str(<<"M", "O", "C", "U+212A">>), Str(<<"U+00A0", "m", "o", "c", "k", "\r">>),
   Str(<<"o", "p", "e", "n", "a", "U+0130">>)}

ModelFields == {Undefined, Blank, Str(<<"m">>), NotAString}

Body(j, m, p, mo) == [json |-> j, messages |-> m, provider |-> p, model |-> mo]

\* the request bodies: text that is no JSON, the JSON values null and 5 (a
\* number has no messages property), and objects: every messages field with
\* no or the mock provider, and every provider field, and every model field
\* for no provider, Azure, OpenAI and Ollama, with a valid message list
Bodies ==
  {Body("invalid", [k |-> "undefined", list |-> <<>>], Undefined, Undefined),
   Body("null", [k |-> "undefined", list |-> <<>>], Undefined, Undefined),
   Body("number", [k |-> "undefined", list |-> <<>>], Undefined, Undefined)}
  \cup {Body("object", m, p, Undefined) : m \in MessageFields, p \in {Undefined, Str(MOCK)}}
  \cup {Body("object", Array(<<User(Padded), Assistant(Str(<<"o", "k">>))>>), p, Undefined) :
          p \in ProviderFields}
  \cup {Body("object", Array(<<User(Padded), Assistant(Str(<<"o", "k">>))>>), p, mo) :
          p \in {Undefined, Str(AZURE), Str(OPENAI), Str(OLLAMA)}, mo \in ModelFields}

NoThrow == [throws |-> FALSE, e |-> ErrorOf(<<>>)]
Throws(e) == [throws |-> TRUE, e |-> e]

\* the texts of upstream errors
ErrorMessages == {<<"x">>, DONE}
Errors == {ErrorOf(m) : m \in ErrorMessages} \cup {ThrownValue(<<"x">>)}

\* the chunks of a streaming completion: choices[0].delta.content, when present
Choice(hasDelta, content) == [hasDelta |-> hasDelta, delta |-> [content |-> content]]
Chunk(choices) == [choices |-> choices]
Chunks ==
  {Chunk(<<>>), Chunk(<<Choice(FALSE, Undefined)>>), Chunk(<<Choice(TRUE, Undefined)>>),
   Chunk(<<Choice(TRUE, Str(<<>>))>>), Chunk(<<Choice(TRUE, Str(<<"a">>))>>),
   Chunk(<<Choice(TRUE, Str(DONE))>>), Chunk(<<Choice(TRUE, Str(ERROR_PREFIX \o <<"x">>))>>)}

NL == <<"\n">>

\* a line as the Ollama server writes it, ended by a carriage return:
\* {"model":"llama3","created_at":"2024-01-01T00:00:00Z","message":{"role":"assistant","content":"<c>"},"done":<done>}
OllamaChatLine(c, done) ==
  <<"{", "\"", "m", "o", "d", "e", "l", "\"", ":", "\"", "l", "l", "a", "m", "a", "3", "\"", ",",
    "\"", "c", "r", "e", "a", "t", "e", "d", "_", "a", "t", "\"", ":",
    "\"", "2", "0", "2", "4", "-", "0", "1", "-", "0", "1", "T", "0", "0", ":", "0", "0", ":", "0", "0", "Z", "\"", ",",
    "\"", "m", "e", "s", "s", "a", "g", "e", "\"", ":", "{",
    "\"", "r", "o", "l", "e", "\"", ":", "\"", "a", "s", "s", "i", "s", "t", "a", "n", "t", "\"", ",",
    "\"", "c", "o", "n", "t", "e", "n", "t", "\"", ":", "\"">> \o c \o <<"\"", "}", ",",
    "\"", "d", "o", "n", "e", "\"", ":">> \o done \o <<"}", "\r">>

\* a line with the given text as the value of done: {"message":{"content":"<c>"},"done":<done>}
OllamaLineDone(c, done) ==
  JSON_MESSAGE_OPEN \o c \o JSON_MESSAGE_CLOSE
    \o <<",", "\"", "d", "o", "n", "e", "\"", ":">> \o done \o <<"}">>

\* the bodies the Ollama server sends; in the last three, lines with further
\* members, white space, an escape and done: 1; a content whose last byte
\* starts a character that never comes; and a content that is the first
\* half of a character with done: 0.0e-01 (zero), then the whole character
\* with done: 1e-0000001 (a tenth), then a line that is not to be read
OllamaBodies ==
  { OllamaLine(<<"H", "i">>, FALSE) \o NL \o OllamaLine(<<"H", "i", "!">>, FALSE) \o NL
      \o JSON_DONE_ONLY \o NL,
    OllamaLine(<<"H", "i">>, FALSE) \o NL \o NL \o OllamaLine(<<"H", "i", "!">>, TRUE) \o NL
      \o OllamaLine(<<"Y", "o">>, FALSE) \o NL,
    <<"o", "o", "p", "s">> \o NL \o OllamaLine(DONE, FALSE) \o NL \o JSON_NULL \o NL,
    OllamaLine(<<"H", "i">>, FALSE) \o NL \o OllamaLine(<<"Y", "o">>, FALSE),
    OllamaChatLine(<<"H", "i">>, <<"f", "a", "l", "s", "e">>) \o NL
      \o OllamaChatLine(<<"H", "i", "\\", "u", "0", "0", "e", "9">>, <<" ", "1", " ">>) \o NL,
    OllamaLine(<<"H", "i", UTF8_LEAD>>, FALSE) \o NL,
    OllamaLineDone(<<"\\", "u", "d", "8", "3", "d">>, <<"0", ".", "0", "e", "-", "0", "1">>) \o NL
      \o OllamaLineDone(<<"\\", "u", "d", "8", "3", "d", "\\", "u", "d", "e", "0", "0">>,
                        <<"1", "e", "-", "0", "0", "0", "0", "0", "0", "1">>) \o NL
      \o OllamaLine(<<"Y", "o">>, FALSE) \o NL }

Upstream(ok, status, hasBody, body) ==
  [ok |-> ok, status |-> status, hasBody |-> hasBody, body |-> body]

\* what fetch resolves with
Upstreams ==
  {Upstream(FALSE, <<"5", "0", "0">>, TRUE, <<>>), Upstream(TRUE, <<"2", "0", "4">>, FALSE, <<>>)}
  \cup {Upstream(TRUE, <<"2", "0", "0">>, TRUE, b) : b \in OllamaBodies}

\* -------------------------------------------------------------------- state

VARIABLES
  env,       \* process.env, read at request time
  pc,        \* where the request is: idle, awaitCreate, awaitFetch, streaming,
             \* settling, returning, done
  req,       \* the request body
  provider,  \* const provider = detectProvider(body.provider) (<<>>: not reached)
  handler,   \* the provider handler POST invoked (<<>>: none)
  messages,  \* the message list given to the handler
  resp,      \* what POST's promise settled with (NoResponse: it is pending)
  chan,      \* the response stream's channel
  src        \* the producer's own state

vars == <<env, pc, req, provider, handler, messages, resp, chan, src>>

NoBody == Body("none", [k |-> "undefined", list |-> <<>>], Undefined, Undefined)

Init ==
  /\ env \in Envs
  /\ pc = "idle"
  /\ req = NoBody
  /\ provider = <<>>
  /\ handler = <<>>
  /\ messages = <<>>
  /\ resp = NoResponse
  /\ chan = NewChannel
  /\ src = NoSource

\* what constructing the credential and the client does (new
\* DefaultAzureCredential, new AzureOpenAI, new OpenAI): it returns, or throws
CredentialOutcomes(e) == {NoThrow} \cup {Throws(x) : x \in Errors}

\* export async function POST(req), up to the first await of the handler
POST ==
  /\ pc = "idle"
  /\ \E body \in Bodies, credentialFails \in CredentialOutcomes(env) :
       \E o \in {POSTsync(body, env, credentialFails)} :
          /\ req' = body
          /\ pc' = o.pc
          /\ resp' = o.resp
          /\ chan' = o.chan
          /\ src' = o.src
          /\ handler' = o.handler
          /\ provider' = o.provider
          /\ messages' = o.messages
  /\ UNCHANGED env

\* the mock producer's timer fires
MockTimer ==
  /\ pc = "streaming" /\ src.kind = "mock"
  /\ \E n \in {mockStep(chan, src.rest)} :
        /\ chan' = n.ch
        /\ src' = [src EXCEPT !.rest = n.rest]
        /\ pc' = IF n.ch.producer = "running" THEN "streaming" ELSE "done"
  /\ UNCHANGED <<env, req, provider, handler, messages, resp>>

\* The consumer cancels the response stream (the client disconnects), at
\* any moment from the one it holds the Response: while the producer runs,
\* between the producer's end and start()'s, or after controller.close().
Cancel ==
  /\ resp.kind = "stream"
  /\ chan' = controllerCancel(chan)
  /\ UNCHANGED <<env, pc, req, provider, handler, messages, resp, src>>

\* the consumer reads the closed stream to its end
ReadToEnd ==
  /\ resp.kind = "stream" /\ chan.queued
  /\ chan' = controllerDrained(chan)
  /\ UNCHANGED <<env, pc, req, provider, handler, messages, resp, src>>

\* `return new Response(stream, { headers: SSE_HEADERS })` of handleAzure,
\* handleOpenAI and handleOllama reaches POST's caller: the promise POST
\* returned is fulfilled.  The handlers are async functions and POST returns
\* their promise, so this comes some microtasks after the stream was built;
\* the producer, started with the stream, runs in between whenever what it
\* awaits is there already, up to its end and controller.close().
ReturnResponse ==
  /\ resp.kind = "none" /\ src.kind \in {"openai", "ollama"}
  /\ resp' = streamResponse
  /\ UNCHANGED <<env, pc, req, provider, handler, messages, chan, src>>

\* client.chat.completions.create(...) resolves with the chunk iterator:
\* openAIChatStream builds the stream, whose start() runs the producer up to
\* the iterator's first next(), and returns it to the handler
CreateResolves ==
  /\ pc = "awaitCreate"
  /\ pc' = "streaming"
  /\ chan' = NewChannel
  /\ src' = [kind |-> "openai", n |-> 0]
  /\ UNCHANGED <<env, req, provider, handler, messages, resp>>

\* client.chat.completions.create(...) rejects
CreateRejects ==
  /\ pc = "awaitCreate"
  /\ \E e \in Errors : resp' = createRejected(handler, e)
  /\ pc' = "done"
  /\ UNCHANGED <<env, req, provider, handler, messages, chan, src>>

\* the iterator delivers a chunk
OpenAIChunk ==
  /\ pc = "streaming" /\ src.kind = "openai" /\ src.n < MaxChunks
  /\ \E part \in Chunks :
       \E n \in {openAIStep(chan, part)} :
         /\ chan' = n.ch
         \* the chunks received are kept where the state carries their history
         /\ src' = IF "got" \in DOMAIN src
                   THEN [src EXCEPT !.n = @ + 1, !.got = Append(@, part)]
                   ELSE [src EXCEPT !.n = @ + 1]
         /\ pc' = IF n.ok THEN "streaming" ELSE "returning"
  /\ UNCHANGED <<env, req, provider, handler, messages, resp>>

\* emit threw in the loop body and the promise of iterator.return() has
\* settled: the producer throws emit's TypeError (whatever return() settled
\* with) and start() goes on in its catch block.  While return() is
\* pending, start() does not end.
IteratorReturned ==
  /\ pc = "returning" /\ src.kind = "openai"
  /\ chan' = sseSettle(chan, Threw(StreamTypeError))
  /\ pc' = "done"
  /\ UNCHANGED <<env, req, provider, handler, messages, resp, src>>

\* the iterator is exhausted: the producer returns
OpenAIEnd ==
  /\ pc = "streaming" /\ src.kind = "openai"
  /\ chan' = sseSettle(chan, Returned)
  /\ pc' = "done"
  /\ UNCHANGED <<env, req, provider, handler, messages, resp, src>>

\* the iterator throws: the producer throws
OpenAIError ==
  /\ pc = "streaming" /\ src.kind = "openai"
  /\ \E e \in Errors : chan' = sseSettle(chan, Threw(e))
  /\ pc' = "done"
  /\ UNCHANGED <<env, req, provider, handler, messages, resp, src>>

\* fetch resolves
FetchResolves ==
  /\ pc = "awaitFetch"
  /\ \E upstream \in Upstreams :
       \E o \in {ollamaFetched(upstream)} :
          /\ pc' = o.pc
          /\ resp' = o.resp
          /\ chan' = o.chan
          /\ src' = o.src
  /\ UNCHANGED <<env, req, provider, handler, messages>>

\* fetch rejects (the server cannot be reached): handleOllama does not catch it
FetchRejects ==
  /\ pc = "awaitFetch"
  /\ resp' = rejectedPromise
  /\ pc' = "done"
  /\ UNCHANGED <<env, req, provider, handler, messages, chan, src>>

\* src after a read of k bytes: the loop's variables, the decoder's pending
\* bytes and what is left of the body; where the state carries their history,
\* the lines that reached JSON.parse are kept
AfterRead(s, k, d, n) ==
  LET s1 == [s EXCEPT !.buffer = n.buffer, !.lastFull = n.lastFull, !.td = d.pending,
                      !.up = SubSeq(s.up, k + 1, Len(s.up))]
  IN IF "parsed" \in DOMAIN s
     THEN With(split(s.buffer \o d.text), LAMBDA lines :
            [s1 EXCEPT !.parsed = @ \o parsedLines(n.before, s.lastFull, SubSeq(lines, 1, Len(lines) - 1))])
     ELSE s1

\* reader.read() resolves with the next k bytes of the body
OllamaRead ==
  /\ pc = "streaming" /\ src.kind = "ollama" /\ src.up # <<>>
  /\ \E k \in {x \in 1..Len(src.up) : x <= MaxRead \/ x = Len(src.up)} :
       \E d \in {tdDecode(src.td, SubSeq(src.up, 1, k))} :
         \E n \in {ollamaRead(chan, src.buffer, src.lastFull, d.text)} :
            /\ chan' = n.ch
            /\ src' = AfterRead(src, k, d, [buffer |-> n.buffer, lastFull |-> n.lastFull, before |-> chan])
            /\ pc' = IF n.ch.producer = "running" THEN "streaming" ELSE "settling"
  /\ UNCHANGED <<env, req, provider, handler, messages, resp>>

\* The producer returned at a line with a truthy done (line 100): start()
\* resumes after `await producer(emit)` with emit("[DONE]") and
\* controller.close() (lines 55-59).  The events of the last read were
\* enqueued before; a consumer reading them can have cancelled in between.
OllamaReturned ==
  /\ pc = "settling" /\ src.kind = "ollama"
  /\ chan' = sseSettle(chan, Returned)
  /\ pc' = "done"
  /\ UNCHANGED <<env, req, provider, handler, messages, resp, src>>

\* reader.read() resolves with done: the loop breaks and the producer returns
OllamaReadDone ==
  /\ pc = "streaming" /\ src.kind = "ollama" /\ src.up = <<>>
  /\ chan' = ollamaReadEnd(chan, src.buffer, src.lastFull)
  /\ pc' = "done"
  /\ UNCHANGED <<env, req, provider, handler, messages, resp, src>>

\* reader.read() rejects: the producer throws
OllamaReadError ==
  /\ pc = "streaming" /\ src.kind = "ollama"
  /\ \E e \in Errors : chan' = sseSettle(chan, Threw(e))
  /\ pc' = "done"
  /\ UNCHANGED <<env, req, provider, handler, messages, resp, src>>

Next ==
  \/ POST
  \/ CreateResolves
  \/ CreateRejects
  \/ ReturnResponse
  \/ OpenAIChunk
  \/ IteratorReturned
  \/ OpenAIEnd
  \/ OpenAIError
  \/ FetchResolves
  \/ FetchRejects
  \/ OllamaRead
  \/ OllamaReturned
  \/ OllamaReadDone
  \/ OllamaReadError
  \/ MockTimer
  \/ Cancel
  \/ ReadToEnd

Spec == Init /\ [][Next]_vars

\* the timer of the mock producer fires: setTimeout(r, 6) calls back
SpecTimers == Init /\ [][Next]_vars /\ WF_vars(MockTimer)

\* ------------------------------------------- provider detection on its own

EnvValues == {Undefined, Blank, V}

\* the settings of the Ollama variables: none set, one of them, both
OllamaEnvs == {<<Undefined, Undefined>>, <<V, Undefined>>, <<Undefined, V>>, <<V, V>>}

\* every environment: each variable detectProvider reads unset, blank or set,
\* with each setting of the Ollama variables
EnvsWith(ollama) ==
  [AZURE_OPENAI_ENDPOINT : EnvValues, AZURE_OPENAI_DEPLOYMENT : EnvValues,
   AZURE_OPENAI_API_VERSION : EnvValues, AZURE_OPENAI_API_KEY : EnvValues,
   AZURE_OPENAI_CLIENTID : EnvValues, AZURE_MANAGED_IDENTITY_CLIENT_ID : EnvValues,
   OPENAI_API_KEY : EnvValues,
   OLLAMA_BASE_URL : {ollama[1]}, OLLAMA_MODEL : {ollama[2]}]

AllEnvs == UNION {EnvsWith(ollama) : ollama \in OllamaEnvs}

LowerToUpper ==
  [a |-> "A", c |-> "C", e |-> "E", i |-> "I", k |-> "K", l |-> "L", m |-> "M",
   n |-> "N", o |-> "O", p |-> "P", r |-> "R", u |-> "U", z |-> "Z"]

\* the spellings of a provider name in every letter case
Spellings(name) ==
  {[i \in 1..Len(name) |-> IF i \in upper THEN LowerToUpper[name[i]] ELSE name[i]] :
     upper \in SUBSET (1..Len(name))}

\* the spellings of each provider name
SpellingsOf == [name \in Provider |-> Spellings(name)]

\* the values of the explicit argument
ExplicitInputs ==
  {Str(sp) : sp \in UNION {SpellingsOf[name] : name \in Provider}} \cup ProviderFields

\* the values tried in an environment: every spelling where no Ollama variable
\* is set, the provider fields of the request bodies in the others
ExplicitInputsIn(e) ==
  IF <<e.OLLAMA_BASE_URL, e.OLLAMA_MODEL>> = <<Undefined, Undefined>>
  THEN ExplicitInputs ELSE ProviderFields

InitDetect ==
  /\ env \in AllEnvs
  /\ pc = "detect"
  /\ req = NoBody
  /\ provider = <<>>
  /\ handler = <<>>
  /\ messages = <<>>
  /\ resp = NoResponse
  /\ chan = NewChannel
  /\ src = NoSource

\* line 196: const provider = detectProvider(body.provider)
Detect ==
  /\ pc = "detect"
  /\ \E explicit \in ExplicitInputsIn(env) :
       /\ req' = Body("object", Array(<<User(Hi)>>), explicit, Undefined)
       /\ provider' = detectProvider(explicit, env)
  /\ pc' = "detected"
  /\ UNCHANGED <<env, handler, messages, resp, chan, src>>

NextDetect == Detect

SpecDetect == InitDetect /\ [][NextDetect]_vars

\* --------------------------------------------------- sanitization on its own

\* Messages a sanitized list has at most.
MaxList == 2

\* contents with white space in front, behind, within, and nothing else
SanitizeContents ==
  {<<>>, <<" ">>, <<"\n", "\t">>, <<"a">>, <<" ", "a">>, <<"a", " ">>, <<" ", "a", "\n">>,
   <<"a", " ", "b">>, <<"\t", "a", " ", "b", " ">>, <<"\r", "U+00A0">>,
   <<"U+FEFF", "a", "\r", "\n">>}

SanitizeMessagesIn ==
  {[role |-> r, content |-> Str(c)] : r \in {"system", "user", "assistant"}, c \in SanitizeContents}

\* the message lists of up to MaxList messages
SanitizeLists == UNION {[1..n -> SanitizeMessagesIn] : n \in 0..MaxList}

InitSanitize ==
  /\ env = EnvNone
  /\ pc = "sanitize"
  /\ req \in {Body("object", Array(list), Undefined, Undefined) : list \in SanitizeLists}
  /\ provider = <<>>
  /\ handler = <<>>
  /\ messages = <<>>
  /\ resp = NoResponse
  /\ chan = NewChannel
  /\ src = NoSource

\* line 193: const messages = sanitizeMessages(body.messages)
Sanitize ==
  /\ pc = "sanitize"
  /\ messages' = sanitizeMessages(req.messages.list)
  /\ pc' = "sanitized"
  /\ UNCHANGED <<env, req, provider, handler, resp, chan, src>>

\* sanitizeMessages applied to its own result; src keeps the first result
SanitizeAgain ==
  /\ pc = "sanitized"
  /\ messages' = sanitizeMessages(messages)
  /\ src' = [kind |-> "sanitized", once |-> messages]
  /\ pc' = "resanitized"
  /\ UNCHANGED <<env, req, provider, handler, resp, chan>>

NextSanitize == Sanitize \/ SanitizeAgain

SpecSanitize == InitSanitize /\ [][NextSanitize]_vars

\* ------------------------------------------------- the Ollama adapter on its own

\* Lines an upstream body has at most.
MaxLines == 3

\* one upstream line: its message.content and its done flag
SentLine(c, done) == [content |-> c, done |-> done]

\* the contents of a cumulative reply, in order of growth
CumulativeContents == <<HI, HI_THERE, HI_THERE_BANG>>

\* a cumulative reply cut inside a character: the first half of U+1F600 (a
\* string of one UTF-16 unit), then the character (a string of two units
\* that starts with the first)
HalfThenWhole == <<<<"U+D83D">>, <<"U+1F600">>>>

\* the rank of a content in a cumulative reply (0: the empty content)
RankOf(reply, c) == IF c = <<>> THEN 0 ELSE CHOOSE i \in 1..Len(reply) : reply[i] = c

\* sequences of up to MaxLines lines whose non-empty contents are those of the
\* reply, in order of growth (each non-empty content starts with the
\* non-empty ones before it), with at most one line carrying done: true
CumulativeLinesOf(reply) ==
  LET contents == {<<>>} \cup {reply[i] : i \in 1..Len(reply)}
      all == UNION {[1..n -> {SentLine(c, d) : c \in contents, d \in BOOLEAN}] : n \in 1..MaxLines}
  IN {ls \in all :
        /\ \A i, j \in 1..Len(ls) :
             (i < j /\ ls[i].content # <<>> /\ ls[j].content # <<>>)
               => RankOf(reply, ls[i].content) <= RankOf(reply, ls[j].content)
        /\ Cardinality({i \in 1..Len(ls) : ls[i].done}) <= 1}

\* the lines of the two replies, of the second those without an empty content
CumulativeLines ==
  CumulativeLinesOf(CumulativeContents)
    \cup {ls \in CumulativeLinesOf(HalfThenWhole) : \A i \in 1..Len(ls) : ls[i].content # <<>>}

\* a content as it is written between the quotes of a JSON string: a UTF-16
\* unit that is half of a character as the escape \uXXXX, every other
\* character as it is
JsonEscaped(c) ==
  With(toCodeUnits(c), LAMBDA u :
    With([i \in 1..Len(u) |-> Cardinality({j \in 1..(i - 1) : isSurrogate(u[j])})], LAMBDA before :
      [x \in 1..(Len(u) + 5 * Cardinality({j \in 1..Len(u) : isSurrogate(u[j])})) |->
         With(CHOOSE i \in 1..Len(u) :
                /\ i + 5 * before[i] <= x
                /\ x <= i + 5 * before[i] + (IF isSurrogate(u[i]) THEN 5 ELSE 0), LAMBDA i :
           IF ~isSurrogate(u[i]) THEN u[i]
           ELSE With(x - (i + 5 * before[i]), LAMBDA k :
                  IF k = 0 THEN "\\" ELSE IF k = 1 THEN "u" ELSE SubSeq(u[i], k + 1, k + 1)))]))

\* the body text of a sequence of lines, each ended by a newline
RECURSIVE BodyOf(_)
BodyOf(ls) ==
  IF ls = <<>> THEN <<>>
  ELSE OllamaLine(JsonEscaped(Head(ls).content), Head(ls).done) \o NL \o BodyOf(Tail(ls))

\* handleOllama once fetch has resolved with a readable body of cumulative
\* lines: the stream is built and POST's promise pending
InitOllama ==
  /\ env = EnvNone
  /\ pc = "streaming"
  /\ req = Body("object", Array(<<User(Hi)>>), Str(OLLAMA), Undefined)
  /\ provider = OLLAMA
  /\ handler = OLLAMA
  /\ messages = <<User(Hi)>>
  /\ resp = NoResponse
  /\ chan = NewChannel
  /\ src \in {[kind |-> "ollama", buffer |-> <<>>, lastFull |-> <<>>, td |-> <<>>,
                up |-> BodyOf(ls), sent |-> ls] :
               ls \in CumulativeLines}

NextOllama ==
  ReturnResponse \/ OllamaRead \/ OllamaReturned \/ OllamaReadDone \/ Cancel \/ ReadToEnd

SpecOllama == InitOllama /\ [][NextOllama]_vars

\* ------------------------------------------ the OpenAI / Azure adapter on its own

\* openAIChatStream once create() has resolved with the chunk iterator: the
\* stream is built and POST's promise pending; the chunks received are
\* recorded in src.got
InitOpenAI ==
  /\ env = [EnvNone EXCEPT !.OPENAI_API_KEY = V]
  /\ pc = "streaming"
  /\ req = Body("object", Array(<<User(Hi)>>), Str(OPENAI), Undefined)
  /\ provider = OPENAI
  /\ handler = OPENAI
  /\ messages = <<User(Hi)>>
  /\ resp = NoResponse
  /\ chan = NewChannel
  /\ src = [kind |-> "openai", n |-> 0, got |-> <<>>]

NextOpenAI ==
  \/ ReturnResponse
  \/ OpenAIChunk
  \/ IteratorReturned
  \/ OpenAIEnd
  \/ OpenAIError
  \/ Cancel
  \/ ReadToEnd

SpecOpenAI == InitOpenAI /\ [][NextOpenAI]_vars

\* ------------------------------------------------- the Azure handler on its own

\* every environment without Ollama variables
InitAzure ==
  /\ env \in EnvsWith(<<Undefined, Undefined>>)
  /\ pc = "detect"
  /\ req = NoBody
  /\ provider = <<>>
  /\ handler = <<>>
  /\ messages = <<>>
  /\ resp = NoResponse
  /\ chan = NewChannel
  /\ src = NoSource

\* line 201: case "azure": return handleAzure(body, messages), for a body
\* with each value of the model field
HandleAzure ==
  /\ pc = "detect"
  /\ \E model \in ModelFields, credentialFails \in CredentialOutcomes(env) :
       \E body \in {Body("object", Array(<<User(Hi)>>), Str(AZURE), model)} :
         \E o \in {dispatch(AZURE, body, <<User(Hi)>>, env, credentialFails)} :
           /\ req' = body
           /\ pc' = o.pc
           /\ resp' = o.resp
           /\ chan' = o.chan
           /\ src' = o.src
           /\ handler' = o.handler
           /\ provider' = o.provider
           /\ messages' = o.messages
  /\ UNCHANGED env

NextAzure == HandleAzure \/ CreateResolves \/ CreateRejects \/ ReturnResponse

SpecAzure == InitAzure /\ [][NextAzure]_vars

\* ------------------------------------- the Ollama read loop and its line buffer

\* TextEncoder on the upstream side: the bytes of a text
RECURSIVE utf8Encode(_)
utf8Encode(text) ==
  IF text = <<>> THEN <<>>
  ELSE (IF Head(text) = E_ACUTE THEN <<UTF8_LEAD, UTF8_CONT>> ELSE <<Head(text)>>)
         \o utf8Encode(Tail(text))

\* a line cut off inside its content: no JSON text
TRUNCATED_LINE == JSON_MESSAGE_OPEN \o HI

\* the lines of an upstream body: a content, a longer content with a character
\* of two bytes, a last content with done: true (after a space, and ended by a
\* carriage return), a line that is no JSON, and the empty line (two newlines
\* in a row)
SplitLineTexts ==
  {OllamaLine(HI, FALSE), OllamaLine(HI_E, FALSE),
   <<" ">> \o OllamaLine(<<"Y", "o">>, TRUE) \o <<"\r">>, TRUNCATED_LINE, <<>>}

\* the bodies of up to MaxLines lines, each a different one
SplitBodies ==
  {ls \in UNION {[1..n -> SplitLineTexts] : n \in 1..MaxLines} :
     \A i, j \in 1..Len(ls) : i # j => ls[i] # ls[j]}

\* the bytes of a body: each line ended by a newline, the last one too when
\* the body is terminated
RECURSIVE BytesOf(_, _)
BytesOf(lines, terminated) ==
  IF lines = <<>> THEN <<>>
  ELSE utf8Encode(Head(lines))
         \o (IF Len(lines) > 1 \/ terminated THEN NL ELSE <<>>)
         \o BytesOf(Tail(lines), terminated)

\* handleOllama once fetch has resolved with a readable body; the lines sent
\* and the lines that reached JSON.parse are recorded in src
InitSplit ==
  /\ env = EnvNone
  /\ pc = "streaming"
  /\ req = Body("object", Array(<<User(Hi)>>), Str(OLLAMA), Undefined)
  /\ provider = OLLAMA
  /\ handler = OLLAMA
  /\ messages = <<User(Hi)>>
  /\ resp = NoResponse
  /\ chan = NewChannel
  /\ src \in {[kind |-> "ollama", buffer |-> <<>>, lastFull |-> <<>>, td |-> <<>>,
                up |-> BytesOf(ls, terminated), lines |-> ls, terminated |-> terminated,
                parsed |-> <<>>] :
               ls \in SplitBodies, terminated \in BOOLEAN}

NextSplit ==
  ReturnResponse \/ OllamaRead \/ OllamaReturned \/ OllamaReadDone \/ Cancel \/ ReadToEnd

SpecSplit == InitSplit /\ [][NextSplit]_vars

\* ------------------------------------------------ requests running concurrently

\* Requests in flight at the same time.
MaxRequests == 2

Requests == 1..MaxRequests

\* the variables declared at module level: one set shared by all calls
frameShared(r) == 1

\* The variables `td`, `buffer` and `lastFull` are declared in the body of
\* handleOllama (lines 82-83), and the producer closes over them: the call
\* made for request r has a set of its own.
frame(r) == r

\* const td = new TextDecoder(); let buffer = "", lastFull = ""
NewFrame == [buffer |-> <<>>, lastFull |-> <<>>, td |-> <<>>]

\* the bytes cut into successive reads after the given positions
ReadsOf(bytes, cuts) ==
  [i \in 1..(Len(cuts) + 1) |->
     SubSeq(bytes, IF i = 1 THEN 1 ELSE cuts[i - 1] + 1,
                   IF i > Len(cuts) THEN Len(bytes) ELSE cuts[i])]

\* the reads of an upstream body: two cumulative lines cut inside the first
\* line and inside the two-byte character of the second; a done: true line
\* cut in two, with a line after it; a line that is no JSON and a line
\* without newline
RequestReads ==
  {ReadsOf(utf8Encode(OllamaLine(HI, FALSE)) \o NL \o utf8Encode(OllamaLine(HI_E, FALSE)) \o NL,
           <<20, 55>>),
   ReadsOf(OllamaLine(<<"Y", "o">>, TRUE) \o NL \o OllamaLine(HI, FALSE) \o NL, <<10>>),
   ReadsOf(TRUNCATED_LINE \o NL \o OllamaLine(HI_THERE, FALSE), <<30>>)}

\* Every request is in handleOllama, its fetch resolved: its stream is built
\* and the promise of its POST pending.  src holds the variable sets of the
\* calls and, for each request, the reads of its body, the number of them
\* delivered, the number of steps its producer and start() had made when its
\* client cancelled (-1: it has not), and whether its client has read the
\* closed stream to its end.
InitRequests ==
  /\ env = EnvNone
  /\ pc = [r \in Requests |-> "streaming"]
  /\ req = Body("object", Array(<<User(Hi)>>), Str(OLLAMA), Undefined)
  /\ provider = OLLAMA
  /\ handler = OLLAMA
  /\ messages = <<User(Hi)>>
  /\ resp = [r \in Requests |-> NoResponse]
  /\ chan = [r \in Requests |-> NewChannel]
  /\ src \in {[kind |-> "requests", frames |-> [f \in Requests |-> NewFrame], reads |-> b,
                n |-> [r \in Requests |-> 0], cancelAt |-> [r \in Requests |-> -1],
                drained |-> [r \in Requests |-> FALSE]] :
               b \in [Requests -> RequestReads]}

\* the steps the producer of request r and start() of its stream have made:
\* its reads and, when start() has ended, the step it ended with
StepsOf(r) == src.n[r] + (IF pc[r] = "done" THEN 1 ELSE 0)

\* the Response of request r reaches the caller of its POST
RequestResponse(r) ==
  /\ resp[r].kind = "none"
  /\ resp' = [resp EXCEPT ![r] = streamResponse]
  /\ UNCHANGED <<env, pc, req, provider, handler, messages, chan, src>>

\* reader.read() of request r resolves with the next read of its body
RequestRead(r) ==
  /\ pc[r] = "streaming" /\ src.n[r] < Len(src.reads[r])
  /\ \E f \in {src.frames[frame(r)]} :
       \E d \in {tdDecode(f.td, src.reads[r][src.n[r] + 1])} :
         \E n \in {ollamaRead(chan[r], f.buffer, f.lastFull, d.text)} :
            /\ chan' = [chan EXCEPT ![r] = n.ch]
            /\ src' = [src EXCEPT !.frames[frame(r)] =
                                     [buffer |-> n.buffer, lastFull |-> n.lastFull, td |-> d.pending],
                                  !.n[r] = @ + 1]
            /\ pc' = [pc EXCEPT ![r] = IF n.ch.producer = "running" THEN "streaming" ELSE "settling"]
  /\ UNCHANGED <<env, req, provider, handler, messages, resp>>

\* the producer of request r returned at a done line: start() of its stream
\* resumes with emit("[DONE]") and controller.close()
RequestReturned(r) ==
  /\ pc[r] = "settling"
  /\ chan' = [chan EXCEPT ![r] = sseSettle(chan[r], Returned)]
  /\ pc' = [pc EXCEPT ![r] = "done"]
  /\ UNCHANGED <<env, req, provider, handler, messages, resp, src>>

\* reader.read() of request r resolves with done
RequestReadEnd(r) ==
  /\ pc[r] = "streaming" /\ src.n[r] = Len(src.reads[r])
  /\ \E f \in {src.frames[frame(r)]} :
       chan' = [chan EXCEPT ![r] = ollamaReadEnd(chan[r], f.buffer, f.lastFull)]
  /\ pc' = [pc EXCEPT ![r] = "done"]
  /\ UNCHANGED <<env, req, provider, handler, messages, resp, src>>

\* the client of request r cancels its response stream
RequestCancel(r) ==
  /\ resp[r].kind = "stream"
  /\ chan' = [chan EXCEPT ![r] = controllerCancel(chan[r])]
  /\ src' = IF chan[r].state = "readable" \/ chan[r].queued
            THEN [src EXCEPT !.cancelAt[r] = StepsOf(r)]
            ELSE src
  /\ UNCHANGED <<env, pc, req, provider, handler, messages, resp>>

\* the client of request r reads its closed stream to its end
RequestReadToEnd(r) ==
  /\ resp[r].kind = "stream" /\ chan[r].queued
  /\ chan' = [chan EXCEPT ![r] = controllerDrained(chan[r])]
  /\ src' = [src EXCEPT !.drained[r] = TRUE]
  /\ UNCHANGED <<env, pc, req, provider, handler, messages, resp>>

NextRequests ==
  \/ \E r \in Requests : RequestResponse(r)
  \/ \E r \in Requests : RequestRead(r)
  \/ \E r \in Requests : RequestReturned(r)
  \/ \E r \in Requests : RequestReadEnd(r)
  \/ \E r \in Requests : RequestCancel(r)
  \/ \E r \in Requests : RequestReadToEnd(r)

SpecRequests == InitRequests /\ [][NextRequests]_vars

\* ------------------------------------------------------------------ claims

\* the tokens the producer called emit with
Tokens == IF chan.producer = "running" THEN chan.calls ELSE SubSeq(chan.calls, 1, chan.nTokens)

\* the event of a token as it is written to the client
Event(t) == encode(Frame(t))

\* the events of a token sequence
Frames(ts) == [i \in 1..Len(ts) |-> Event(ts[i])]

\* the payload of an event text: what stands between "data: " and the two newlines
Payload(ev) == SubSeq(ev, Len(DATA_PREFIX) + 1, Len(ev) - Len(EVENT_END))

\* sseStream was called: the request has a stream, whether its Response has
\* reached POST's caller or not
HasStream == src.kind # "none"

\* a stream whose start() has run to its end
StreamDone == pc = "done" /\ HasStream

\* a body that parsed: to an object, a number (which has no property set) or null
Parsed == pc # "idle" /\ req.json \in {"object", "number", "null"}

\* POST answered with the JSON error of the given status and invoked no handler
Refused(status) ==
  /\ pc = "done"
  /\ resp.kind = "json" /\ resp.status = status /\ resp.ok = FALSE
  /\ handler = <<>>

\* C1 as stated: whenever the producer returned normally, the output is its token
\* events in order followed by exactly one [DONE] event, and nothing else.
C1_Original ==
  (StreamDone /\ chan.producer = "returned")
    => chan.out = Frames(Tokens) \o <<Event(DONE)>>

\* C1 amended: whenever the producer returned normally and the consumer had
\* not cancelled the stream by then, the events enqueued are the token events
\* in order followed by exactly one [DONE] event, and a cancel that comes
\* later only discards what the consumer had not read of them; when the
\* consumer cancelled before sseStream wrote the sentinel, the events
\* enqueued are those of the emit calls made before the cancel and no
\* sentinel at all.
C1_NormalCompletion ==
  (StreamDone /\ chan.producer = "returned")
    => IF chan.closeRequested
       THEN /\ chan.out = Frames(Tokens) \o <<Event(DONE)>>
            /\ chan.cancelled => ~chan.queued
       ELSE /\ chan.cancelled
            /\ chan.out = Frames(SubSeq(Tokens, 1, chan.outAtClose))

C1_Witness ==
  /\ StreamDone /\ chan.producer = "returned" /\ ~chan.cancelled
  /\ chan.nTokens >= 2
  /\ chan.out = Frames(Tokens) \o <<Event(DONE)>>

\* C2 as stated: whenever the producer threw, the output is its token events in
\* order followed by exactly one [ERROR] event carrying the message, and no
\* [DONE] event.
C2_Original ==
  (StreamDone /\ chan.producer = "threw")
    => chan.out = Frames(Tokens) \o <<Event(ERROR_PREFIX \o chan.thrown)>>

\* C2 amended: whenever the producer threw and the consumer had not cancelled
\* the stream by then, the events enqueued are the token events in order
\* followed by exactly one [ERROR] event carrying the message, and a cancel
\* that comes later only discards what the consumer had not read of them;
\* when the consumer cancelled before, the events enqueued are those of the
\* emit calls made before the cancel and no sentinel.  In no run does
\* sseStream write a [DONE] sentinel after the producer threw, and it never
\* writes more than one sentinel.
C2_ProducerFailure ==
  /\ (StreamDone /\ chan.producer = "threw")
       => IF chan.closeRequested
          THEN /\ chan.out = Frames(Tokens) \o <<Event(ERROR_PREFIX \o chan.thrown)>>
               /\ chan.cancelled => ~chan.queued
          ELSE /\ chan.cancelled
               /\ chan.out = Frames(SubSeq(Tokens, 1, chan.outAtClose))
  /\ HasStream => Len(chan.out) <= Len(Tokens) + 1

C2_Witness ==
  /\ StreamDone /\ chan.producer = "threw" /\ ~chan.cancelled
  /\ chan.nTokens >= 2
  /\ chan.out = Frames(Tokens) \o <<Event(ERROR_PREFIX \o chan.thrown)>>

\* the channel was closed right after the sentinel sseStream wrote
ClosedAfterSentinel ==
  /\ chan.producer # "running"
  /\ chan.outAtClose = chan.nTokens + 1
  /\ chan.out[chan.outAtClose] =
       Event(IF chan.producer = "returned" THEN DONE ELSE ERROR_PREFIX \o chan.thrown)

\* the channel is closed at most once, exactly once when start() has ended, and
\* no event is enqueued after the close
ClosedOnce ==
  /\ chan.closes <= 1
  /\ chan.state = "closed" <=> chan.closes = 1
  /\ StreamDone => chan.closes = 1
  /\ chan.state = "closed" => Len(chan.out) = chan.outAtClose

\* C3 as stated: in every state of every run, cancelled ones included, the
\* channel is closed exactly once, after the terminal sentinel event, and no
\* event is enqueued after the close.
C3_Original ==
  HasStream => (ClosedOnce /\ (chan.state = "closed" => ClosedAfterSentinel))

\* C3 amended: sseStream calls controller.close() exactly once in every run
\* whose start() ends, and no event is enqueued once the channel has been
\* closed, by that call or by a cancel.  When the consumer has not cancelled
\* by then, the call closes the channel right after the terminal sentinel; a
\* cancel that comes later ends the channel a second time and adds or removes
\* no event.  When the consumer cancelled before the sentinel was written,
\* that cancel is the one close, no sentinel is written, and sseStream's own
\* calls of enqueue and close throw without changing the channel.
C3_ClosedOnce ==
  HasStream =>
    /\ chan.closeCalls <= 1
    /\ StreamDone => chan.closeCalls = 1
    /\ chan.closes = (IF chan.closeRequested THEN 1 ELSE 0) + (IF chan.cancelled THEN 1 ELSE 0)
    /\ chan.state = "closed" <=> chan.closes >= 1
    /\ chan.state = "closed" => Len(chan.out) = chan.outAtClose
    /\ chan.closeRequested =>
         /\ ClosedAfterSentinel
         /\ chan.closeCalls = 1 /\ chan.lateEnqueues = 0 /\ ~chan.startRejected
    /\ (StreamDone /\ ~chan.closeRequested) =>
         /\ chan.cancelled /\ chan.closes = 1
         /\ chan.lateEnqueues >= 1
         /\ chan.startRejected
         /\ chan.out = Frames(SubSeq(chan.calls, 1, chan.outAtClose))

\* a stream cancelled after sseStream closed it: two endings, the sentinel in place
C3_Witness ==
  /\ StreamDone /\ chan.cancelled /\ chan.closeRequested /\ chan.producer = "threw"
  /\ chan.closes = 2 /\ chan.closeCalls = 1 /\ Len(chan.out) >= 2
  /\ chan.lateEnqueues = 0 /\ ~chan.startRejected

\* C4 as stated: POST never ends with a rejected promise; whenever it ends
\* without a stream, it has returned a JSON error {ok: false, error} with
\* status 400 or 500.
C4_Original ==
  (pc = "done" /\ resp.kind \notin {"stream", "none"})
    => (resp.kind = "json" /\ resp.ok = FALSE /\ resp.status \in {400, 500})

\* a payload that reads as a sentinel
IsSentinelPayload(p) == p = DONE \/ startsWith(p, <<"[", "E", "R", "R", "O", "R", "]">>)

\* C5 as stated: an event whose payload is [DONE] or starts with [ERROR] is the
\* last event of its stream and is written only once the producer has ended;
\* no token event has such a payload.
C5_Original ==
  resp.kind = "stream" =>
    \A i \in 1..Len(chan.out) :
      IsSentinelPayload(Payload(chan.out[i]))
        => (i = Len(chan.out) /\ chan.producer # "running" /\ i > chan.nTokens)

\* C6 as stated: a body that parsed and whose messages field is absent, no
\* array or an empty array is answered with status 400 and a JSON error, and
\* no handler is invoked.
C6_Original ==
  (Parsed /\ (req.messages.k # "array" \/ req.messages.list = <<>>)) => Refused(400)

TooMany == "too many messages (max 64)"

\* C7: a body with more than 64 messages, counted before sanitization, is
\* answered with status 400 and the message naming the limit of 64, and no
\* handler is invoked; a body with exactly 64 messages is not answered so.
C7_MessageLimit ==
  (Parsed /\ req.messages.k = "array") =>
    /\ Len(req.messages.list) > 64 => (Refused(400) /\ resp.error = Msg(TooMany))
    /\ Len(req.messages.list) = 64 => (pc = "done" => resp.error # Msg(TooMany))
    /\ (Len(req.messages.list) = 64 /\ \E i \in 1..64 : req.messages.list[i] = User(Hi))
         => handler # <<>>

\* 65 messages of which only one is not blank
C7_Witness ==
  /\ Parsed /\ req.messages.k = "array"
  /\ Len(req.messages.list) = 65
  /\ Cardinality({i \in 1..65 : req.messages.list[i].content # Blank}) = 1
  /\ Refused(400) /\ resp.error = Msg(TooMany)

\* the content is absent, or a string of white space only
IsBlankContent(c) ==
  c.k = "undefined" \/ (c.k = "string" /\ \A j \in 1..Len(c.s) : IsWhiteSpace(c.s[j]))

\* C8: a body of 1 to 64 messages all of which are empty after trimming is
\* answered with status 400 and a JSON error, and no handler is invoked; every
\* message list given to a handler is non-empty, and each of its messages has
\* a non-empty content without white space at either end.
C8_NonEmptyAfterSanitization ==
  /\ (/\ Parsed /\ req.messages.k = "array"
      /\ Len(req.messages.list) \in 1..64
      /\ \A i \in 1..Len(req.messages.list) : IsBlankContent(req.messages.list[i].content))
       => Refused(400)
  /\ handler # <<>> =>
       /\ messages # <<>>
       /\ \A i \in 1..Len(messages) :
            /\ messages[i].content.k = "string"
            /\ messages[i].content.s # <<>>
            /\ ~IsWhiteSpace(messages[i].content.s[1])
            /\ ~IsWhiteSpace(messages[i].content.s[Len(messages[i].content.s)])

C8_Witness ==
  /\ Parsed /\ req.messages.k = "array"
  /\ Len(req.messages.list) = 2
  /\ \A i \in 1..2 : IsBlankContent(req.messages.list[i].content)
  /\ Refused(400) /\ resp.error = Msg("no non-empty messages")

\* provider fields that spell no provider name
UnknownNames == {Str(<<"f", "o", "o">>), Str(<<"m", "o", " ", "c", "k">>)}

\* C9 as stated: a request whose provider field is a non-empty string that is
\* no provider name is answered with status 400 and a JSON error and reaches
\* no handler.
C9_Original ==
  (Parsed /\ req.provider \in UnknownNames) => Refused(400)

\* C10: when the explicit argument spells openai, azure, ollama or mock in any
\* letter case, detectProvider returns that provider, in every environment.
C10_ExplicitSelection ==
  pc = "detected" =>
    \A name \in Provider :
      (req.provider.k = "string" /\ req.provider.s \in SpellingsOf[name]) => provider = name

\* OLLAMA chosen explicitly, in mixed case, while Azure and OpenAI are configured
C10_Witness ==
  /\ pc = "detected"
  /\ req.provider = Str(<<"O", "l", "L", "a", "M", "a">>)
  /\ hasAzureConfig(env) /\ hasOpenAIConfig(env)
  /\ provider = OLLAMA

\* a variable that is set: it has a non-empty value
IsSet(v) == v.k = "string" /\ Len(v.s) > 0

\* the provider the auto-detection rule names for an environment
AutoDetected(e) ==
  IF /\ IsSet(e.AZURE_OPENAI_ENDPOINT) /\ IsSet(e.AZURE_OPENAI_DEPLOYMENT)
     /\ IsSet(e.AZURE_OPENAI_API_VERSION)
     /\ \/ IsSet(e.AZURE_OPENAI_API_KEY)
        \/ IsSet(e.AZURE_OPENAI_CLIENTID)
        \/ IsSet(e.AZURE_MANAGED_IDENTITY_CLIENT_ID)
  THEN AZURE
  ELSE IF IsSet(e.OPENAI_API_KEY) THEN OPENAI
  ELSE MOCK

\* the provider fields that ask for ollama
AsksForOllama == {Str(sp) : sp \in SpellingsOf[OLLAMA]}

\* C11: with no explicit provider, detectProvider returns azure when endpoint,
\* deployment and API version are set together with the API key or a
\* managed-identity client id, else openai when OPENAI_API_KEY is set, else
\* mock; it returns ollama only when ollama was asked for, whatever the
\* Ollama variables are.
C11_AutoDetection ==
  pc = "detected" =>
    /\ req.provider = Undefined => provider = AutoDetected(env)
    /\ provider = OLLAMA => req.provider \in AsksForOllama

\* Azure lacks its endpoint, OPENAI_API_KEY and both Ollama variables are set
C11_Witness ==
  /\ pc = "detected" /\ req.provider = Undefined
  /\ env.OLLAMA_BASE_URL = V /\ env.OLLAMA_MODEL = V
  /\ env.AZURE_OPENAI_ENDPOINT = Undefined /\ env.AZURE_OPENAI_API_KEY = V
  /\ env.OPENAI_API_KEY = V
  /\ provider = OPENAI

\* C12: sanitizing a sanitized list gives the same list: the same length, and
\* the same role and content at each position.
C12_SanitizeIdempotent ==
  pc = "resanitized" =>
    /\ Len(messages) = Len(src.once)
    /\ \A i \in 1..Len(messages) :
         /\ messages[i].role = src.once[i].role
         /\ messages[i].content = src.once[i].content

\* a blank message between two padded ones: the first pass drops and trims
C12_Witness ==
  /\ pc = "resanitized"
  /\ Len(req.messages.list) = 2
  /\ req.messages.list[1].content = Str(<<" ">>)
  /\ req.messages.list[2].content = Str(<<"\t", "a", " ", "b", " ">>)
  /\ src.once = <<[role |-> req.messages.list[2].role, content |-> Str(<<"a", " ", "b">>)]>>
  /\ messages = src.once

\* the lines of a body up to and including the first one with done: true
RECURSIVE UpToDone(_)
UpToDone(ls) ==
  IF ls = <<>> THEN <<>>
  ELSE IF Head(ls).done THEN <<Head(ls)>>
  ELSE <<Head(ls)>> \o UpToDone(Tail(ls))

\* the suffixes by which the non-empty contents of the lines grow beyond prev,
\* the empty ones left out; a content is the string of its UTF-16 units
RECURSIVE Deltas(_, _)
Deltas(ls, prev) ==
  IF ls = <<>> THEN <<>>
  ELSE IF Head(ls).content = <<>> THEN Deltas(Tail(ls), prev)
  ELSE With(toCodeUnits(Head(ls).content), LAMBDA units :
         (IF Len(units) > Len(toCodeUnits(prev))
          THEN <<fromCodeUnits(SubSeq(units, Len(toCodeUnits(prev)) + 1, Len(units)))>>
          ELSE <<>>) \o Deltas(Tail(ls), Head(ls).content))

\* the last non-empty content of the lines (empty when there is none)
RECURSIVE LastContent(_)
LastContent(ls) ==
  IF ls = <<>> THEN <<>>
  ELSE IF ls[Len(ls)].content # <<>> THEN ls[Len(ls)].content
  ELSE LastContent(SubSeq(ls, 1, Len(ls) - 1))

RECURSIVE Concat(_)
Concat(ts) == IF ts = <<>> THEN <<>> ELSE Head(ts) \o Concat(Tail(ts))

\* the string the tokens make when put together
Joined(ts) == fromCodeUnits(toCodeUnits(Concat(ts)))

\* t is the beginning of u
IsPrefix(t, u) == Len(t) <= Len(u) /\ SubSeq(u, 1, Len(t)) = t

\* C13: for upstream lines whose non-empty contents are cumulative, the adapter
\* emits for each content only its suffix beyond the content before it and
\* nothing for an empty suffix, in every state of the read loop; when the loop
\* has ended, the emitted tokens put together are the last content.  The lines
\* are those up to the end marker (the first line with done: true); once the
\* consumer has cancelled, the tokens are those emit was called with.
C13_OllamaDeltas ==
  src.kind = "ollama" =>
    /\ IsPrefix(Tokens, Deltas(IF chan.cancelled THEN src.sent ELSE UpToDone(src.sent), <<>>))
    /\ (pc = "done" /\ ~chan.cancelled) =>
         /\ Tokens = Deltas(UpToDone(src.sent), <<>>)
         /\ Joined(Tokens) = LastContent(UpToDone(src.sent))
         /\ \A i \in 1..Len(Tokens) : Tokens[i] # <<>>

\* 'Hi', 'Hi there', 'Hi there!' yields 'Hi', ' there', '!'
C13_Witness ==
  /\ src.kind = "ollama" /\ pc = "done" /\ ~chan.cancelled
  /\ src.sent = <<SentLine(HI, FALSE), SentLine(HI_THERE, FALSE), SentLine(HI_THERE_BANG, FALSE)>>
  /\ Tokens = <<HI, <<" ", "t", "h", "e", "r", "e">>, <<"!">>>>

\* the characters of the upstream body the reads have delivered
Consumed == Len(BodyOf(src.sent)) - Len(src.up)

\* the adapter has parsed a line with done: true: the reads have delivered
\* the first such line with the newline that ends it
ParsedDone ==
  /\ \E i \in 1..Len(src.sent) : src.sent[i].done
  /\ Consumed >= Len(BodyOf(UpToDone(src.sent)))

\* C14 as stated: once the adapter has parsed a line with done: true, the read
\* loop has ended (no further read), the tokens are the deltas of the lines up
\* to that line and none of a later line, and the stream is finished with
\* [DONE], whether or not the body has been read to its end.  (The sentinel
\* is looked for once start() has gone on after the producer's return.)
C14_Original ==
  (src.kind = "ollama" /\ ParsedDone) =>
    /\ pc \in {"settling", "done"} /\ chan.producer = "returned"
    /\ Tokens = Deltas(UpToDone(src.sent), <<>>)
    /\ pc = "done" => (Len(chan.out) > 0 /\ chan.out[Len(chan.out)] = Event(DONE))

\* the reply the mock handler is to give for a message list
ExpectedMockReply(list) ==
  LET users == {i \in 1..Len(list) : list[i].role = "user"}
      last == IF users = {} THEN HELLO
              ELSE list[CHOOSE i \in users : \A j \in users : j <= i].content.s
  IN MOCK_REPLY_PREFIX \o [i \in 1..(IF Len(last) < 240 THEN Len(last) ELSE 240) |-> last[i]]

\* C15 as stated: the tokens of the mock handler's stream are single
\* characters which, put together, are at every moment a beginning of 'Mock
\* reply (no live model). You said: ' followed by the first 240 characters of
\* the last user message (or 'Hello'), and the whole of it when the stream
\* has ended without a cancel; the reply depends on the message list alone,
\* and the handler never waits for an upstream call.
C15_Original ==
  (handler = MOCK /\ resp.kind = "stream") =>
    /\ src.kind = "mock" /\ pc \in {"streaming", "done"}
    /\ \A i \in 1..Len(Tokens) : Len(Tokens[i]) = 1
    /\ IsPrefix(Concat(Tokens), ExpectedMockReply(messages))
    /\ (StreamDone /\ ~chan.cancelled) =>
         /\ Concat(Tokens) = ExpectedMockReply(messages)
         /\ chan.out = Frames(Tokens) \o <<Event(DONE)>>

\* a valid request: an object with 1 to 64 messages, each content a string or
\* absent, at least one of them not blank
ValidRequest ==
  /\ pc # "idle" /\ req.json = "object" /\ req.messages.k = "array"
  /\ Len(req.messages.list) \in 1..64
  /\ \A i \in 1..Len(req.messages.list) : req.messages.list[i].content.k # "number"
  /\ \E i \in 1..Len(req.messages.list) : ~IsBlankContent(req.messages.list[i].content)

\* the mock stream has ended as it should: closed, its last event [DONE], no
\* [ERROR] event, every other event a token of the handler's reply
MockFinished ==
  /\ StreamDone /\ chan.state = "closed"
  /\ chan.out = Frames(Tokens) \o <<Event(DONE)>>
  /\ Concat(Tokens) = baseReply(messages)

\* C16: a valid request with provider 'mock' is answered, in every
\* environment, with status 200 and the SSE content type, and unless the
\* client cancels, the stream ends after the tokens of the reply with
\* 'data: [DONE]' as its last event and is closed, with no [ERROR] event.
C16_MockEndToEnd ==
  /\ []((ValidRequest /\ req.provider = Str(MOCK)) =>
          (resp.kind = "stream" /\ resp.status = 200 /\ resp.contentType = SSE_HEADERS
           /\ handler = MOCK))
  /\ (ValidRequest /\ req.provider = Str(MOCK)) ~> (chan.cancelled \/ MockFinished)

\* the mock provider asked for while Azure is configured
C16_Witness ==
  /\ ValidRequest /\ req.provider = Str(MOCK)
  /\ hasAzureConfig(env)
  /\ MockFinished /\ ~chan.cancelled
  /\ resp.status = 200 /\ resp.contentType = SSE_HEADERS

\* the non-empty choices[0].delta.content values of a sequence of chunks, in order
RECURSIVE NonEmptyContents(_)
NonEmptyContents(parts) ==
  IF parts = <<>> THEN <<>>
  ELSE LET p == Head(parts)
           has == /\ Len(p.choices) > 0
                  /\ p.choices[1].hasDelta
                  /\ p.choices[1].delta.content.k = "string"
                  /\ Len(p.choices[1].delta.content.s) > 0
       IN (IF has THEN <<p.choices[1].delta.content.s>> ELSE <<>>)
            \o NonEmptyContents(Tail(parts))

\* the sentinel event sseStream wrote, if the producer has ended
SentinelWritten ==
  IF chan.producer = "running" THEN <<>>
  ELSE IF chan.producer = "returned" THEN <<Event(DONE)>>
  ELSE <<Event(ERROR_PREFIX \o chan.thrown)>>

\* C17 as stated: at every moment the token events written are the events of
\* the non-empty choices[0].delta.content values of the chunks received so
\* far, one per such chunk and in their order, followed by the sentinel once
\* the producer has ended: no token is dropped.
C17_Original ==
  (src.kind = "openai" /\ "got" \in DOMAIN src) =>
    chan.out = Frames(NonEmptyContents(src.got)) \o SentinelWritten

\* C17 amended: at every moment the tokens of the OpenAI / Azure adapter are
\* the non-empty choices[0].delta.content values of the chunks received so
\* far, one per such chunk and in their order; a chunk without choices,
\* without delta or with an absent or empty content adds nothing.  As long
\* as the client has not cancelled before sseStream closed the stream, the
\* events written are the events of these tokens in that order, followed by
\* the sentinel once the producer has ended.  Once the client has cancelled
\* before, the events written are those of the tokens before the cancel:
\* the token of the one chunk received after the cancel is dropped, and the
\* loop takes no further chunk.
C17_OpenAIOrdering ==
  (src.kind = "openai" /\ "got" \in DOMAIN src) =>
    /\ Tokens = NonEmptyContents(src.got)
    /\ (~chan.cancelled \/ chan.closeRequested)
         => chan.out = Frames(NonEmptyContents(src.got)) \o SentinelWritten
    /\ (chan.cancelled /\ ~chan.closeRequested) =>
         /\ chan.out = Frames(SubSeq(NonEmptyContents(src.got), 1, chan.outAtClose))
         /\ Len(NonEmptyContents(src.got)) <= chan.outAtClose + 1
         /\ Len(NonEmptyContents(src.got)) > chan.outAtClose => pc \in {"returning", "done"}

\* a token, a chunk without choices, a chunk with empty content, a token
C17_Witness ==
  /\ src.kind = "openai" /\ "got" \in DOMAIN src /\ pc = "done" /\ ~chan.cancelled
  /\ chan.producer = "returned"
  /\ Len(src.got) = 3
  /\ src.got[1] = Chunk(<<Choice(TRUE, Str(<<"a">>))>>)
  /\ src.got[2] = Chunk(<<>>)
  /\ src.got[3] = Chunk(<<Choice(TRUE, Str(DONE))>>)
  /\ chan.out = <<Event(<<"a">>), Event(DONE), Event(DONE)>>

\* a setting that is present and not blank
Available(v) == v.k = "string" /\ \E i \in 1..Len(v.s) : ~IsWhiteSpace(v.s[i])

\* the Azure settings of a request are incomplete: endpoint, deployment (the
\* request's model or AZURE_OPENAI_DEPLOYMENT) or API version missing or
\* blank, or neither a managed-identity client id nor an API key available
AzureSettingsMissing ==
  \/ ~Available(env.AZURE_OPENAI_ENDPOINT)
  \/ ~(Available(req.model) \/ Available(env.AZURE_OPENAI_DEPLOYMENT))
  \/ ~Available(env.AZURE_OPENAI_API_VERSION)
  \/ /\ ~Available(env.AZURE_OPENAI_CLIENTID)
     /\ ~Available(env.AZURE_MANAGED_IDENTITY_CLIENT_ID)
     /\ ~Available(env.AZURE_OPENAI_API_KEY)
     /\ ~Available(env.OPENAI_API_KEY)

AzureConfigMessages ==
  {Msg("Azure config missing (need AZURE_OPENAI_ENDPOINT, AZURE_OPENAI_DEPLOYMENT, AZURE_OPENAI_API_VERSION)"),
   Msg("Azure auth missing (set AZURE_OPENAI_CLIENTID + optional AZURE_OPENAI_SCOPE for managed identity OR provide AZURE_OPENAI_API_KEY)")}

\* C18 as stated: when handleAzure is invoked with incomplete Azure settings,
\* it has returned the JSON error with status 500 that names the missing
\* configuration: no credential or client was constructed (the error is
\* not the one of a failed construction), no create() call is awaited and no
\* stream exists.
C18_Original ==
  (handler = AZURE /\ AzureSettingsMissing) =>
    /\ pc = "done"
    /\ resp.kind = "json" /\ resp.status = 500 /\ resp.ok = FALSE
    /\ resp.error \in AzureConfigMessages
    /\ chan = NewChannel /\ src = NoSource

C20_Original ==
  [][(chan.cancelled /\ chan.lateEnqueues >= 1) => src' = src]_vars

\* A request run alone: its channel and its variables after the first i
\* steps of its producer and start(), its client cancelling after the
\* cancelAt-th of them.  A step is start() going on after the producer's
\* return at a done line, or the next read of the body, or the end of the
\* body when no read is left.
RECURSIVE AloneAfter(_, _, _)
AloneAfter(reads, i, cancelAt) ==
  With(IF i = 0 THEN [ch |-> NewChannel, frame |-> NewFrame]
       ELSE With(AloneAfter(reads, i - 1, cancelAt), LAMBDA s :
              IF s.ch.producer = "returned"
              THEN [s EXCEPT !.ch = sseSettle(s.ch, Returned)]
              ELSE IF i > Len(reads)
              THEN [s EXCEPT !.ch = ollamaReadEnd(s.ch, s.frame.buffer, s.frame.lastFull)]
              ELSE With(tdDecode(s.frame.td, reads[i]), LAMBDA d :
                     With(ollamaRead(s.ch, s.frame.buffer, s.frame.lastFull, d.text), LAMBDA n :
                       [ch |-> n.ch,
                        frame |-> [buffer |-> n.buffer, lastFull |-> n.lastFull, td |-> d.pending]]))),
       LAMBDA s : IF cancelAt = i THEN [s EXCEPT !.ch = controllerCancel(s.ch)] ELSE s)

\* request r run alone on the reads it has been given, to the point it has
\* reached, its client cancelling or reading to the end where the client of
\* r did
Alone(r) ==
  With(AloneAfter(src.reads[r], StepsOf(r), src.cancelAt[r]), LAMBDA s :
    IF src.drained[r] THEN [s EXCEPT !.ch = controllerDrained(s.ch)] ELSE s)

\* what a step can change of request r: its channel, its variables, its
\* position, its response and what is recorded of its run
Own(r) == <<chan[r], src.frames[r], pc[r], resp[r], src.n[r], src.cancelAt[r], src.drained[r]>>

\* C21: with several requests running at once, in every interleaving of
\* their reads, ends of body, cancels (before or after the end of start())
\* and the reads of their clients, the events written to each request's
\* client (and every call made on its stream) are those the request
\* produces when run alone on the same reads, and its line buffer, last full
\* string and decoder are those of the run alone; a step of one request
\* changes nothing of another request.
C21_RequestIndependence ==
  /\ [](src.kind = "requests" =>
          \A r \in Requests :
            With(Alone(r), LAMBDA alone :
              /\ chan[r].out = alone.ch.out
              /\ chan[r] = alone.ch
              /\ src.frames[r] = alone.frame))
  /\ [][src.kind = "requests" =>
          \A r, q \in Requests : (r # q /\ Own(r)' # Own(r)) => Own(q)' = Own(q)]_vars

\* request 1 has emitted 'Hi' and holds the second line cut inside its
\* two-byte character; request 2 holds the first half of its done line
C21_Witness ==
  /\ src.kind = "requests"
  /\ src.n[1] = 2 /\ src.n[2] = 1
  /\ pc[1] = "streaming" /\ pc[2] = "streaming"
  /\ chan[1].out = <<Event(HI)>> /\ chan[2].out = <<>>
  /\ src.frames[1].td = <<UTF8_LEAD>>
  /\ src.frames[1].buffer = JSON_MESSAGE_OPEN \o HI
  /\ src.frames[2].buffer = SubSeq(OllamaLine(<<"Y", "o">>, TRUE), 1, 10)

\* the tokens a channel's producer called emit with
TokensIn(ch) == IF ch.producer = "running" THEN ch.calls ELSE SubSeq(ch.calls, 1, ch.nTokens)

\* the bytes of the body the reads have delivered
Delivered ==
  With(BytesOf(src.lines, src.terminated), LAMBDA whole : SubSeq(whole, 1, Len(whole) - Len(src.up)))

\* the read loop given the bytes in one single read
OneRead(bytes) ==
  With(tdDecode(<<>>, bytes), LAMBDA d : ollamaRead(NewChannel, <<>>, <<>>, d.text))

\* the number of lines of the body delivered with their terminating newline
CompleteCount ==
  With(Len(BytesOf(src.lines, src.terminated)) - Len(src.up), LAMBDA count :
    Cardinality({n \in 1..Len(src.lines) : Len(BytesOf(SubSeq(src.lines, 1, n), TRUE)) <= count}))

\* a line text that carries done: true
IsDoneText(line) ==
  With(JSONparse(line), LAMBDA p :
    p.ok /\ p.value.k = "object" /\ Get(p.value, <<"d", "o", "n", "e">>) = JsBoolean(TRUE))

\* the line texts up to and including the first one with done: true
RECURSIVE UpToDoneText(_)
UpToDoneText(ls) ==
  IF ls = <<>> THEN <<>>
  ELSE IF IsDoneText(Head(ls)) THEN <<Head(ls)>>
  ELSE <<Head(ls)>> \o UpToDoneText(Tail(ls))

\* the line texts that are not blank
RECURSIVE NonBlank(_)
NonBlank(ls) ==
  IF ls = <<>> THEN <<>>
  ELSE (IF \A i \in 1..Len(Head(ls)) : IsWhiteSpace(Head(ls)[i]) THEN <<>> ELSE <<Head(ls)>>)
         \o NonBlank(Tail(ls))

\* C22: for a body of newline-terminated lines, after reads that have
\* delivered any part of it in any split (in the middle of a line, of a
\* character, between two newlines), the tokens emitted, the remembered last
\* full string and the line buffer are those of one single read delivering
\* the same bytes; the lines that reached JSON.parse are, in order and each
\* once and whole, the non-blank lines whose terminating newline has been
\* delivered, up to the first one with done: true.  (Runs in which the client
\* has not cancelled.)
C22_SplitIndependence ==
  (src.kind = "ollama" /\ "parsed" \in DOMAIN src /\ src.terminated /\ ~chan.cancelled) =>
    /\ With(OneRead(Delivered), LAMBDA one :
         /\ Tokens = TokensIn(one.ch)
         /\ src.lastFull = one.lastFull
         /\ pc = "streaming" => src.buffer = one.buffer)
    /\ src.parsed = NonBlank(UpToDoneText(SubSeq(src.lines, 1, CompleteCount)))

\* the reads have cut the third line inside its two-byte character; the first
\* line has been parsed, the empty second line passed over
C22_Witness ==
  /\ src.kind = "ollama" /\ "parsed" \in DOMAIN src /\ src.terminated /\ ~chan.cancelled
  /\ src.lines = <<OllamaLine(HI, FALSE), <<>>, OllamaLine(HI_E, FALSE)>>
  /\ src.td = <<UTF8_LEAD>>
  /\ src.buffer = JSON_MESSAGE_OPEN \o HI
  /\ src.parsed = <<OllamaLine(HI, FALSE)>>
  /\ Tokens = <<HI>>

\* the line texts without those that are no JSON
RECURSIVE Parseable(_)
Parseable(ls) ==
  IF ls = <<>> THEN <<>>
  ELSE (IF trim(Head(ls)) # <<>> /\ ~JSONparse(Head(ls)).ok THEN <<>> ELSE <<Head(ls)>>)
         \o Parseable(Tail(ls))

\* the lines delivered with their terminating newline
CompleteLines == SubSeq(src.lines, 1, CompleteCount)

\* C23: a complete line that is no JSON is passed over: at every moment the
\* tokens emitted and the remembered last full string are those of the same
\* complete lines without the unparseable ones, so such a line emits
\* nothing, changes nothing and the valid lines after it are processed as if
\* it had not been received; it does not end the stream (the producer ends
\* only on a done: true line or at the end of the body) and no [ERROR] event
\* is written: the producer does not throw.  (Runs in which the client has
\* not cancelled.)
C23_UnparseableIgnored ==
  (src.kind = "ollama" /\ "parsed" \in DOMAIN src /\ ~chan.cancelled) =>
    /\ With(OneRead(BytesOf(Parseable(CompleteLines), TRUE)), LAMBDA good :
         /\ Tokens = TokensIn(good.ch)
         /\ src.lastFull = good.lastFull
         /\ (pc \in {"settling", "done"} /\ src.up # <<>>) => good.ch.producer = "returned")
    /\ pc \in {"settling", "done"}
         => (src.up = <<>> \/ \E i \in 1..CompleteCount : IsDoneText(src.lines[i]))
    /\ chan.producer # "threw"
    /\ \A i \in 1..Len(chan.out) : ~startsWith(Payload(chan.out[i]), ERROR_PREFIX)

\* a cut-off line between 'Hi' and its continuation: the tokens are those of
\* the two valid lines
C23_Witness ==
  /\ src.kind = "ollama" /\ "parsed" \in DOMAIN src /\ ~chan.cancelled
  /\ src.lines = <<OllamaLine(HI, FALSE), TRUNCATED_LINE, OllamaLine(HI_E, FALSE)>>
  /\ src.terminated /\ pc = "done"
  /\ src.parsed = src.lines
  /\ Tokens = <<HI, <<E_ACUTE>>>>
  /\ chan.out = <<Event(HI), Event(<<E_ACUTE>>), Event(DONE)>>

\* the body has been read to its end and none of its complete lines carried
\* done: true: the read that reported the end of the body ended the loop
EndedByTransport ==
  /\ src.kind = "ollama" /\ "parsed" \in DOMAIN src
  /\ pc = "done" /\ src.up = <<>>
  /\ \A i \in 1..CompleteCount : ~IsDoneText(src.lines[i])

\* the lines of the body but the last
AllButLast == SubSeq(src.lines, 1, Len(src.lines) - 1)

\* C24: when the body ends without a complete line having carried done: true,
\* the producer has returned (it did not throw) and, unless the client has
\* cancelled, the stream is closed with [DONE] as its last event after the
\* token events; a last line without terminating newline is still in the line
\* buffer, has not reached JSON.parse and has added no token, whatever it is:
\* the tokens are those of the lines before it.
C24_EndOfTransport ==
  EndedByTransport =>
    /\ chan.producer = "returned"
    /\ ~chan.cancelled =>
         /\ chan.state = "closed"
         /\ chan.out = Frames(Tokens) \o <<Event(DONE)>>
    /\ ~src.terminated =>
         /\ src.buffer = src.lines[Len(src.lines)]
         /\ src.parsed = NonBlank(AllButLast)
         /\ ~chan.cancelled => Tokens = TokensIn(OneRead(BytesOf(AllButLast, TRUE)).ch)

\* 'Hi' with its newline, then a complete JSON line without newline: its
\* content never becomes a token
C24_Witness ==
  /\ EndedByTransport /\ ~chan.cancelled /\ ~src.terminated
  /\ src.lines = <<OllamaLine(HI, FALSE), OllamaLine(HI_E, FALSE)>>
  /\ src.buffer = OllamaLine(HI_E, FALSE)
  /\ src.parsed = <<OllamaLine(HI, FALSE)>>
  /\ chan.out = <<Event(HI), Event(DONE)>>

\* C25 as stated: a request without provider and without model that
\* auto-detection routed to azure is never answered with the 'Azure config
\* missing' or the 'Azure auth missing' error.
C25_Original ==
  (/\ pc # "idle" /\ req.json = "object"
   /\ req.provider = Undefined /\ req.model = Undefined
   /\ provider = AZURE)
    => resp.error \notin AzureConfigMessages

====
